---- MODULE Spec2Model ----
(***************************************************************************)
(* The capture-to-translation pipeline of the useSpeechRecognition hook:   *)
(* text sanitising, medical-term enhancement, language-code resolution,    *)
(* translation with its fallback chain, the recognition session and the    *)
(* inactivity timer.                                                       *)
(*                                                                         *)
(* Text is a sequence of one-character strings, so that the regular        *)
(* expressions of the source are computed character by character.  A       *)
(* JavaScript value that need not be a string is a record [t, v] with t    *)
(* its typeof and v its characters.                                        *)
(***************************************************************************)
EXTENDS Integers, Sequences, FiniteSets, TLC

VARIABLES
  isListening,    \* useState(false)
  transcript,     \* useState(""): the pieces appended so far, in order
  translatedText, \* useState(""): the pieces appended so far, in order
  recognitionRef, \* useRef(null): 0, or the stream it holds
  inputLanguage,  \* App state: the recognition language tag
  outputLanguage, \* App state: the target language code
  streams,        \* the SpeechRecognition objects created so far
  calls,          \* the invocations of translateWithMyMemory in flight
  dispatched,     \* how many invocations the result handler has made
  timer,          \* the inactivity timeout: "pending", "due" or "none"
  emitted,        \* what the last handler passed to showNotification
  lastOp,         \* the last handler that ran
  hasRecognition, \* "SpeechRecognition" in window
  sanIn,          \* sanitize harness: the input string
  sanOut,         \* sanitize harness: results of the successive applications
  invocation,     \* translate harness: the invocation made, with its record
  event,          \* result harness: the entries of the result event, <<>> if none
  utterances,     \* speechSynthesis: the utterances submitted and not yet over
  hasSynthesis,   \* "speechSynthesis" in window
  mounted,        \* the component that uses the hook is mounted
  probe,          \* function harnesses: the call made, with what it returned
  timeouts,       \* timer slice: the timeouts setTimeout has created
  inactivityTimerRef \* timer slice: useRef(null), 0 or the timeout it holds

sessionVars == <<isListening, transcript, translatedText, recognitionRef,
                 inputLanguage, outputLanguage, streams, calls, dispatched, timer,
                 emitted, lastOp, hasRecognition>>

probeVars == <<probe, timeouts, inactivityTimerRef>>

sliceVars == <<event, utterances, hasSynthesis, mounted, probeVars>>

harnessVars == <<sanIn, sanOut, invocation, sliceVars>>

vars == <<sessionVars, harnessVars>>

----------------------------------------------------------------------------
(* Characters and strings.                                                 *)

UpperLetters ==
  <<"A","B","C","D","E","F","G","H","I","J","K","L","M",
    "N","O","P","Q","R","S","T","U","V","W","X","Y","Z">>

LowerLetters ==
  <<"a","b","c","d","e","f","g","h","i","j","k","l","m",
    "n","o","p","q","r","s","t","u","v","w","x","y","z">>

Digits == {"0","1","2","3","4","5","6","7","8","9"}

\* One character folded to lower case (String.prototype.toLowerCase, and the
\* comparison the i flag of a regular expression makes, on ASCII).
toLowerChar(c) ==
  IF \E k \in DOMAIN UpperLetters : UpperLetters[k] = c
  THEN LowerLetters[CHOOSE k \in DOMAIN UpperLetters : UpperLetters[k] = c]
  ELSE c

toLowerCase(s) == [k \in 1..Len(s) |-> toLowerChar(s[k])]

\* \w of a regular expression.
IsWordChar(c) ==
  \/ \E k \in DOMAIN LowerLetters : LowerLetters[k] = c \/ UpperLetters[k] = c
  \/ c \in Digits
  \/ c = "_"

\* \s of a regular expression, and what trim() strips.
IsSpace(c) == c \in {" ", "\t", "\n"}

\* The concatenation of a sequence of strings.
RECURSIVE Flatten(_)
Flatten(ss) == IF ss = <<>> THEN <<>> ELSE Head(ss) \o Flatten(Tail(ss))

\* A JavaScript string value, and the other values the model needs.
Str(s) == [t |-> "string", v |-> s]
Undefined == [t |-> "undefined", v |-> <<>>]

\* pat (lower case) occurs in s at position i, letter case ignored.
matchAtCI(s, i, pat) ==
  /\ i + Len(pat) - 1 <= Len(s)
  /\ \A k \in 1..Len(pat) : toLowerChar(s[i + k - 1]) = pat[k]

\* s.replace(/pat/gi, ""): every occurrence, left to right, not overlapping.
RECURSIVE removeAllFrom(_, _, _)
removeAllFrom(s, pat, i) ==
  IF i > Len(s) THEN <<>>
  ELSE IF matchAtCI(s, i, pat) THEN removeAllFrom(s, pat, i + Len(pat))
  ELSE <<s[i]>> \o removeAllFrom(s, pat, i + 1)

removeAll(s, pat) == removeAllFrom(s, pat, 1)

\* /<script\b[^<]*(?:(?!<\/script>)<[^<]*)*<\/script>/gi removed: a match opens
\* with "<script" at a word boundary and runs to the end of the first
\* "</script>" after it; an opening with no closing after it is kept.
scriptOpensAt(s, i) ==
  /\ matchAtCI(s, i, <<"<","s","c","r","i","p","t">>)
  /\ (i + 7 > Len(s) \/ ~IsWordChar(s[i + 7]))

scriptCloses(s, i) ==
  {j \in (i + 7)..Len(s) : matchAtCI(s, j, <<"<","/","s","c","r","i","p","t",">">>)}

RECURSIVE removeScriptsFrom(_, _)
removeScriptsFrom(s, i) ==
  IF i > Len(s) THEN <<>>
  ELSE IF scriptOpensAt(s, i) /\ scriptCloses(s, i) # {}
  THEN LET j == CHOOSE j \in scriptCloses(s, i) :
                  \A k \in scriptCloses(s, i) : j <= k
       IN  removeScriptsFrom(s, j + 9)
  ELSE <<s[i]>> \o removeScriptsFrom(s, i + 1)

removeScripts(s) == removeScriptsFrom(s, 1)

\* /<\/?[^>]+(>|$)/g removed: a match opens with "<" followed by a character
\* other than ">" and runs through the next ">", or to the end of the string.
tagCloses(s, i) == {j \in (i + 1)..Len(s) : s[j] = ">"}

RECURSIVE removeTagsFrom(_, _)
removeTagsFrom(s, i) ==
  IF i > Len(s) THEN <<>>
  ELSE IF s[i] = "<" /\ i + 1 <= Len(s) /\ s[i + 1] # ">"
  THEN IF tagCloses(s, i) = {} THEN <<>>
       ELSE LET j == CHOOSE j \in tagCloses(s, i) :
                       \A k \in tagCloses(s, i) : j <= k
            IN  removeTagsFrom(s, j + 1)
  ELSE <<s[i]>> \o removeTagsFrom(s, i + 1)

removeTags(s) == removeTagsFrom(s, 1)

\* String.prototype.trim.
RECURSIVE trimStart(_)
trimStart(s) ==
  IF s # <<>> /\ IsSpace(Head(s)) THEN trimStart(Tail(s)) ELSE s

RECURSIVE trimEnd(_)
trimEnd(s) ==
  IF s # <<>> /\ IsSpace(s[Len(s)])
  THEN trimEnd(SubSeq(s, 1, Len(s) - 1)) ELSE s

trim(s) == trimEnd(trimStart(s))

\* sanitizeInput, one replace after the other in the order of the source.
sanitizeInput(input) ==
  IF input.t # "string" THEN <<>>
  ELSE trim(removeAll(removeAll(removeAll(removeAll(
         removeTags(removeScripts(input.v)),
         <<"j","a","v","a","s","c","r","i","p","t",":">>), <<"o","n","e","r","r","o","r">>), <<"o","n","l","o","a","d">>), <<"o","n","c","l","i","c","k">>))

----------------------------------------------------------------------------
(* Objects used as lookup tables.  An object literal is a set of           *)
(* <<key, value>> pairs; obj[key] also finds what every object inherits    *)
(* from Object.prototype, whose members are functions.                     *)

ObjectPrototypeKeys ==
  { <<"c","o","n","s","t","r","u","c","t","o","r">>, <<"h","a","s","O","w","n","P","r","o","p","e","r","t","y">>, <<"i","s","P","r","o","t","o","t","y","p","e","O","f">>,
    <<"p","r","o","p","e","r","t","y","I","s","E","n","u","m","e","r","a","b","l","e">>, <<"t","o","L","o","c","a","l","e","S","t","r","i","n","g">>, <<"t","o","S","t","r","i","n","g">>, <<"v","a","l","u","e","O","f">>,
    <<"_","_","d","e","f","i","n","e","G","e","t","t","e","r","_","_">>, <<"_","_","d","e","f","i","n","e","S","e","t","t","e","r","_","_">>, <<"_","_","l","o","o","k","u","p","G","e","t","t","e","r","_","_">>,
    <<"_","_","l","o","o","k","u","p","S","e","t","t","e","r","_","_">>, <<"_","_","p","r","o","t","o","_","_">> }

HasOwn(obj, key) == \E p \in obj : p[1] = key

Lookup(obj, key) ==
  IF HasOwn(obj, key) THEN (CHOOSE p \in obj : p[1] = key)[2]
  ELSE IF key \in ObjectPrototypeKeys
  THEN [t |-> "function", v |-> <<"f","u","n","c","t","i","o","n"," ">> \o key \o <<"(",")"," ","{"," ","[","n","a","t","i","v","e"," ","c","o","d","e","]"," ","}">>]
  ELSE Undefined

\* ToBoolean of a value.
Truthy(val) ==
  /\ val.t # "undefined"
  /\ ~(val.t = "string" /\ val.v = <<>>)

medicalTermsMap ==
  << << <<"h","e","a","d","a","c","h","e">>, <<"c","e","p","h","a","l","a","l","g","i","a">> >>,
     << <<"f","e","v","e","r">>, <<"p","y","r","e","x","i","a">> >>,
     << <<"s","t","o","m","a","c","h">>, <<"a","b","d","o","m","e","n">> >>,
     << <<"h","u","r","t">>, <<"p","a","i","n">> >>,
     << <<"p","r","e","s","c","r","i","p","t","i","o","n">>, <<"m","e","d","i","c","a","t","i","o","n"," ","o","r","d","e","r">> >>,
     << <<"a","l","l","e","r","g","i","c">>, <<"h","y","p","e","r","s","e","n","s","i","t","i","v","i","t","y">> >>,
     << <<"p","e","n","i","c","i","l","l","i","n">>, <<"a","n","t","i","b","i","o","t","i","c">> >>,
     << <<"b","l","o","o","d"," ","p","r","e","s","s","u","r","e">>, <<"s","y","s","t","o","l","i","c"," ","a","n","d"," ","d","i","a","s","t","o","l","i","c"," ","p","r","e","s","s","u","r","e">> >>,
     << <<"h","e","a","r","t","b","u","r","n">>, <<"p","y","r","o","s","i","s">> >>,
     << <<"r","a","s","h">>, <<"c","u","t","a","n","e","o","u","s"," ","e","r","u","p","t","i","o","n">> >>,
     << <<"d","i","z","z","y">>, <<"v","e","r","t","i","g","o">> >>,
     << <<"t","h","r","o","w"," ","u","p">>, <<"v","o","m","i","t">> >>,
     << <<"b","r","u","i","s","e">>, <<"c","o","n","t","u","s","i","o","n">> >>,
     << <<"b","u","g"," ","b","i","t","e">>, <<"a","r","t","h","r","o","p","o","d"," ","a","s","s","a","u","l","t">> >> >>

languageCodeMap ==
  { << <<"e","n">>, Str(<<"e","n">>) >>, << <<"e","s">>, Str(<<"e","s">>) >>, << <<"f","r">>, Str(<<"f","r">>) >>,
    << <<"d","e">>, Str(<<"d","e">>) >>, << <<"i","t">>, Str(<<"i","t">>) >>, << <<"p","t">>, Str(<<"p","t">>) >>,
    << <<"r","u">>, Str(<<"r","u">>) >>, << <<"z","h">>, Str(<<"z","h">>) >>, << <<"j","a">>, Str(<<"j","a">>) >>,
    << <<"a","r">>, Str(<<"a","r">>) >>,
    << <<"e","n","-","U","S">>, Str(<<"e","n">>) >>, << <<"e","n","-","G","B">>, Str(<<"e","n">>) >>,
    << <<"e","s","-","E","S">>, Str(<<"e","s">>) >>, << <<"f","r","-","F","R">>, Str(<<"f","r">>) >>,
    << <<"d","e","-","D","E">>, Str(<<"d","e">>) >>, << <<"i","t","-","I","T">>, Str(<<"i","t">>) >>,
    << <<"p","t","-","P","T">>, Str(<<"p","t">>) >>, << <<"p","t","-","B","R">>, Str(<<"p","t">>) >>,
    << <<"z","h","-","C","N">>, Str(<<"z","h">>) >>, << <<"j","a","-","J","P">>, Str(<<"j","a">>) >>,
    << <<"a","r","-","S","A">>, Str(<<"a","r">>) >> }

Arr(elems) == [t |-> "array", v |-> elems]

supportedLanguagePairs ==
  { << <<"e","n">>, Arr(<< <<"e","s">>, <<"f","r">>, <<"d","e">>, <<"i","t">>, <<"p","t">>, <<"r","u">>, <<"z","h">>, <<"j","a">>, <<"a","r">> >>) >>,
    << <<"e","s">>, Arr(<< <<"e","n">>, <<"f","r">>, <<"d","e">>, <<"i","t">>, <<"p","t">> >>) >>,
    << <<"f","r">>, Arr(<< <<"e","n">>, <<"e","s">>, <<"d","e">>, <<"i","t">>, <<"p","t">> >>) >>,
    << <<"d","e">>, Arr(<< <<"e","n">>, <<"e","s">>, <<"f","r">>, <<"i","t">>, <<"p","t">> >>) >>,
    << <<"i","t">>, Arr(<< <<"e","n">>, <<"e","s">>, <<"f","r">>, <<"d","e">>, <<"p","t">> >>) >>,
    << <<"p","t">>, Arr(<< <<"e","n">>, <<"e","s">>, <<"f","r">>, <<"d","e">>, <<"i","t">> >>) >>,
    << <<"r","u">>, Arr(<< <<"e","n">> >>) >>,
    << <<"z","h">>, Arr(<< <<"e","n">> >>) >>,
    << <<"j","a">>, Arr(<< <<"e","n">> >>) >>,
    << <<"a","r">>, Arr(<< <<"e","n">> >>) >> }

----------------------------------------------------------------------------
(* Language codes.                                                         *)

\* recognitionLang.split("-")[0]: the part before the first "-".
RECURSIVE beforeDash(_)
beforeDash(s) ==
  IF s = <<>> \/ Head(s) = "-" THEN <<>>
  ELSE <<Head(s)>> \o beforeDash(Tail(s))

\* languageCodeMap[baseLang] || "en"
detectInputLanguage(recognitionLang) ==
  LET baseLang == beforeDash(recognitionLang)
      code == Lookup(languageCodeMap, baseLang)
  IN  IF Truthy(code) THEN code ELSE Str(<<"e","n">>)

\* isLanguagePairSupported accepting every pair.
isLanguagePairSupportedAny(sourceLang, targetLang) ==
  [threw |-> FALSE, value |-> TRUE]

\* supportedLanguagePairs[sourceLang]?.includes(targetLang) || false.
\* threw: the entry is neither undefined nor an array, so that includes is
\* not a function and the call raises a TypeError.
isLanguagePairSupported(sourceLang, targetLang) ==
  LET entry == Lookup(supportedLanguagePairs, sourceLang)
  IN  IF entry.t = "undefined" THEN [threw |-> FALSE, value |-> FALSE]
      ELSE IF entry.t = "array"
      THEN [threw |-> FALSE,
            value |-> \E k \in DOMAIN entry.v : entry.v[k] = targetLang]
      ELSE [threw |-> TRUE, value |-> FALSE]

----------------------------------------------------------------------------
(* Medical-term enhancement.                                               *)

\* \bcommon\b matches at i (common begins and ends with a word character).
wordAt(s, i, common) ==
  /\ matchAtCI(s, i, common)
  /\ (i = 1 \/ ~IsWordChar(s[i - 1]))
  /\ (i + Len(common) > Len(s) \/ ~IsWordChar(s[i + Len(common)]))

\* s.replace(new RegExp(`\\b${common}\\b`, "gi"), medical)
RECURSIVE replaceWordFrom(_, _, _, _)
replaceWordFrom(s, common, medical, i) ==
  IF i > Len(s) THEN <<>>
  ELSE IF wordAt(s, i, common)
  THEN medical \o replaceWordFrom(s, common, medical, i + Len(common))
  ELSE <<s[i]>> \o replaceWordFrom(s, common, medical, i + 1)

\* The entries of medicalTermsMap applied one after the other, from entry k.
RECURSIVE enhanceFrom(_, _)
enhanceFrom(s, k) ==
  IF k > Len(medicalTermsMap) THEN s
  ELSE enhanceFrom(
         replaceWordFrom(s, medicalTermsMap[k][1], medicalTermsMap[k][2], 1),
         k + 1)

enhanceMedicalTerms(text) == enhanceFrom(sanitizeInput(Str(text)), 1)

----------------------------------------------------------------------------
(* The fallback chain.                                                     *)

commonTranslations ==
  { << <<"e","n">>, { << <<"p","a","i","n">>, Str(<<"p","a","i","n">>) >>, << <<"h","e","a","d","a","c","h","e">>, Str(<<"h","e","a","d","a","c","h","e">>) >>,
                << <<"f","e","v","e","r">>, Str(<<"f","e","v","e","r">>) >>, << <<"h","e","l","p">>, Str(<<"h","e","l","p">>) >>,
                << <<"m","e","d","i","c","i","n","e">>, Str(<<"m","e","d","i","c","i","n","e">>) >>, << <<"d","o","c","t","o","r">>, Str(<<"d","o","c","t","o","r">>) >>,
                << <<"e","m","e","r","g","e","n","c","y">>, Str(<<"e","m","e","r","g","e","n","c","y">>) >> } >>,
    << <<"e","s">>, { << <<"p","a","i","n">>, Str(<<"d","o","l","o","r">>) >>, << <<"h","e","a","d","a","c","h","e">>, Str(<<"d","o","l","o","r"," ","d","e"," ","c","a","b","e","z","a">>) >>,
                << <<"f","e","v","e","r">>, Str(<<"f","i","e","b","r","e">>) >>, << <<"h","e","l","p">>, Str(<<"a","y","u","d","a">>) >>,
                << <<"m","e","d","i","c","i","n","e">>, Str(<<"m","e","d","i","c","i","n","a">>) >>, << <<"d","o","c","t","o","r">>, Str(<<"m","é","d","i","c","o">>) >>,
                << <<"e","m","e","r","g","e","n","c","y">>, Str(<<"e","m","e","r","g","e","n","c","i","a">>) >>, << <<"w","a","t","e","r">>, Str(<<"a","g","u","a">>) >>,
                << <<"f","o","o","d">>, Str(<<"c","o","m","i","d","a">>) >> } >>,
    << <<"f","r">>, { << <<"p","a","i","n">>, Str(<<"d","o","u","l","e","u","r">>) >>, << <<"h","e","a","d","a","c","h","e">>, Str(<<"m","a","l"," ","d","e"," ","t","ê","t","e">>) >>,
                << <<"f","e","v","e","r">>, Str(<<"f","i","è","v","r","e">>) >>, << <<"h","e","l","p">>, Str(<<"a","i","d","e">>) >>,
                << <<"m","e","d","i","c","i","n","e">>, Str(<<"m","é","d","i","c","a","m","e","n","t">>) >>, << <<"d","o","c","t","o","r">>, Str(<<"m","é","d","e","c","i","n">>) >>,
                << <<"e","m","e","r","g","e","n","c","y">>, Str(<<"u","r","g","e","n","c","e">>) >>, << <<"w","a","t","e","r">>, Str(<<"e","a","u">>) >>,
                << <<"f","o","o","d">>, Str(<<"n","o","u","r","r","i","t","u","r","e">>) >> } >>,
    << <<"d","e">>, { << <<"p","a","i","n">>, Str(<<"s","c","h","m","e","r","z">>) >>, << <<"h","e","a","d","a","c","h","e">>, Str(<<"k","o","p","f","s","c","h","m","e","r","z","e","n">>) >>,
                << <<"f","e","v","e","r">>, Str(<<"f","i","e","b","e","r">>) >>, << <<"h","e","l","p">>, Str(<<"h","i","l","f","e">>) >>,
                << <<"m","e","d","i","c","i","n","e">>, Str(<<"m","e","d","i","z","i","n">>) >>, << <<"d","o","c","t","o","r">>, Str(<<"a","r","z","t">>) >>,
                << <<"e","m","e","r","g","e","n","c","y">>, Str(<<"n","o","t","f","a","l","l">>) >>, << <<"w","a","t","e","r">>, Str(<<"w","a","s","s","e","r">>) >>,
                << <<"f","o","o","d">>, Str(<<"e","s","s","e","n">>) >> } >> }

langNames ==
  { << <<"e","s">>, Str(<<"S","p","a","n","i","s","h">>) >>, << <<"f","r">>, Str(<<"F","r","e","n","c","h">>) >>,
    << <<"d","e">>, Str(<<"G","e","r","m","a","n">>) >>, << <<"i","t">>, Str(<<"I","t","a","l","i","a","n">>) >>,
    << <<"p","t">>, Str(<<"P","o","r","t","u","g","u","e","s","e">>) >>, << <<"r","u">>, Str(<<"R","u","s","s","i","a","n">>) >>,
    << <<"z","h">>, Str(<<"C","h","i","n","e","s","e">>) >>, << <<"j","a">>, Str(<<"J","a","p","a","n","e","s","e">>) >>,
    << <<"a","r">>, Str(<<"A","r","a","b","i","c">>) >>, << <<"e","n">>, Str(<<"E","n","g","l","i","s","h">>) >> }

\* s.split(/\s+/), from position i with cur the word being read.
RECURSIVE splitFrom(_, _, _)
splitFrom(s, i, cur) ==
  IF i > Len(s) THEN <<cur>>
  ELSE IF IsSpace(s[i])
  THEN IF i < Len(s) /\ IsSpace(s[i + 1]) THEN splitFrom(s, i + 1, cur)
       ELSE <<cur>> \o splitFrom(s, i + 1, <<>>)
  ELSE splitFrom(s, i + 1, Append(cur, s[i]))

splitWhitespace(s) == splitFrom(s, 1, <<>>)

\* words.join(" ")
RECURSIVE joinSpace(_)
joinSpace(words) ==
  IF words = <<>> THEN <<>>
  ELSE IF Len(words) = 1 THEN words[1]
  ELSE words[1] \o <<" ">> \o joinSpace(Tail(words))

\* word.replace(/[.,!?;:]/g, "")
cleanPunctuation(word) ==
  SelectSeq(word, LAMBDA c : c \notin {".", ",", "!", "?", ";", ":"})

\* commonTranslations[targetLang]?.[cleanWord] || word
translateWord(word, targetLang) ==
  IF ~HasOwn(commonTranslations, targetLang) THEN word
  ELSE LET entry == Lookup(Lookup(commonTranslations, targetLang),
                            cleanPunctuation(word))
       IN  IF Truthy(entry) THEN entry.v ELSE word

\* Line 375: sanitizedText.toLowerCase().split(/\s+/)
fallbackWords(text) ==
  splitWhitespace(toLowerCase(sanitizeInput(Str(text))))

\* Lines 376-379: words.map(...)
translatedWords(text, targetLang) ==
  LET words == fallbackWords(text)
  IN  [k \in DOMAIN words |-> translateWord(words[k], targetLang)]

clientSideFallback(text, targetLang) ==
  LET sanitizedText == sanitizeInput(Str(text))
      words == splitWhitespace(toLowerCase(sanitizedText))
  IN  joinSpace([k \in DOMAIN words |-> translateWord(words[k], targetLang)])

\* The result of translate: its text and the return statement it came from.
Result(text, provenance) == [text |-> text, provenance |-> provenance]

handleFallbackTranslation(text, targetLang) ==
  LET sanitizedText == sanitizeInput(Str(text))
      clientTranslated == clientSideFallback(sanitizedText, targetLang)
      name == Lookup(langNames, targetLang)
  IN  IF clientTranslated # toLowerCase(sanitizedText)
      THEN Result(clientTranslated, "Dictionary")
      ELSE Result(sanitizedText \o <<" ","[","W","o","u","l","d"," ","b","e"," ","t","r","a","n","s","l","a","t","e","d"," ","t","o"," ">>
                    \o (IF Truthy(name) THEN name.v ELSE targetLang) \o <<"]">>,
                  "UntranslatedNotice")

----------------------------------------------------------------------------
(* translateWithMyMemory.  An invocation runs to its first await (the      *)
(* fetch), resumes when the fetch settles, and again when response.json()  *)
(* settles.  A call record keeps what the invocation was given, what the   *)
(* network answered and what it returned: pc is "fetch" or "json" while it *)
(* awaits, "done" once it returned result, "rejected" if it threw.         *)

Note(message, type) == [message |-> message, type |-> type, args |-> <<>>]

NoteArgs(message, type, args) ==
  [message |-> message, type |-> type, args |-> args]

NoResult == Result(<<>>, "none")

\* What response.json() can settle with: a rejection (the body is not JSON),
\* or a value.  isNull: the body is the JSON null; responseStatus: the number
\* in that field, -1 if there is none; hasData: responseData is an object;
\* translatedText: the value of responseData.translatedText.
Payload(parsed, isNull, responseStatus, hasData, text) ==
  [parsed |-> parsed, isNull |-> isNull, responseStatus |-> responseStatus,
   hasData |-> hasData, translatedText |-> text]

\* response.json() has not settled: no payload, and no rejection either.
NoData == Payload(FALSE, TRUE, -1, FALSE, Undefined)

\* The record of an invocation at entry.  pairChecked: line 278 was reached
\* and isLanguagePairSupported called.
beginCall(text, targetLang, sourceLang) ==
  [text |-> text, targetLang |-> targetLang, sourceLang |-> sourceLang,
   sanitizedText |-> sanitizeInput(Str(text)), pc |-> "fetch",
   pairChecked |-> FALSE, fetches |-> 0, response |-> "none",
   data |-> NoData, result |-> NoResult, notes |-> <<>>]

\* translateBegin returning the text it was given when the languages are
\* the same, as the hook did before it sanitized.
translateBeginRaw(text, targetLang, sourceLang) ==
  LET call == beginCall(text, targetLang, sourceLang)
      supported == isLanguagePairSupported(sourceLang, targetLang)
  IN  IF sourceLang = targetLang
      THEN [call EXCEPT !.pc = "done", !.result = Result(text, "Identity")]
      ELSE IF ~supported.value
      THEN [call EXCEPT
              !.pc = "done", !.pairChecked = TRUE,
              !.notes = << NoteArgs("Translation from ${sourceLang} to ${targetLang} not supported. Using fallback.",
                                    "warning", <<sourceLang, targetLang>>) >>,
              !.result = handleFallbackTranslation(call.sanitizedText, targetLang)]
      ELSE [call EXCEPT !.pairChecked = TRUE, !.fetches = 1]

\* Lines 268-291: up to the fetch.
translateBegin(text, targetLang, sourceLang) ==
  LET call == beginCall(text, targetLang, sourceLang)
      supported == isLanguagePairSupported(sourceLang, targetLang)
  IN  IF sourceLang = targetLang
      THEN [call EXCEPT !.pc = "done",
                        !.result = Result(call.sanitizedText, "Identity")]
      ELSE IF supported.threw
      THEN [call EXCEPT !.pc = "rejected", !.pairChecked = TRUE]
      ELSE IF ~supported.value
      THEN [call EXCEPT
              !.pc = "done", !.pairChecked = TRUE,
              !.notes = << NoteArgs("Translation from ${sourceLang} to ${targetLang} not supported. Using fallback.",
                                    "warning", <<sourceLang, targetLang>>) >>,
              !.result = handleFallbackTranslation(call.sanitizedText, targetLang)]
      ELSE [call EXCEPT !.pairChecked = TRUE, !.fetches = 1]

\* translateCatch without the catch block: the failure leaves the function
\* as an exception.
translateCatchRethrows(call) == [call EXCEPT !.pc = "rejected"]

\* translateCatch showing the failure with the severity of an error.
translateCatchAsError(call) ==
  [call EXCEPT
     !.pc = "done",
     !.notes = << Note("Translation service unavailable. Using fallback.",
                       "error") >>,
     !.result = handleFallbackTranslation(call.sanitizedText, call.targetLang)]

\* Lines 309-316: the catch block.
translateCatch(call) ==
  [call EXCEPT
     !.pc = "done",
     !.notes = << Note("Translation service unavailable. Using fallback.",
                       "warning") >>,
     !.result = handleFallbackTranslation(call.sanitizedText, call.targetLang)]

\* What fetch can settle with: a rejection (network failure), a response
\* whose ok is false, a response whose ok is true.
Responses == {"reject", "notok", "ok"}

\* translateOnResponse asking again when the request failed.
translateOnResponseRetry(call, response) ==
  LET seen == [call EXCEPT !.response = response]
  IN  IF response = "ok" THEN [seen EXCEPT !.pc = "json"]
      ELSE [seen EXCEPT !.fetches = @ + 1]

\* Lines 287-297: the fetch settles.
translateOnResponse(call, response) ==
  LET seen == [call EXCEPT !.response = response]
  IN  IF response = "ok" THEN [seen EXCEPT !.pc = "json"]
      ELSE translateCatch(seen)

\* translateOnJson returning the text of the payload as it came, as the
\* hook of the older application does.
translateOnJsonRaw(call, data) ==
  LET seen == [call EXCEPT !.data = data]
  IN  IF ~data.parsed \/ data.isNull THEN translateCatch(seen)
      ELSE IF /\ data.responseStatus = 200
              /\ data.hasData
              /\ Truthy(data.translatedText)
      THEN [seen EXCEPT
              !.pc = "done",
              !.result = Result(data.translatedText.v, "Remote")]
      ELSE translateCatch(seen)

\* translateOnJson without the test of responseStatus.
translateOnJsonAnyStatus(call, data) ==
  LET seen == [call EXCEPT !.data = data]
  IN  IF ~data.parsed \/ data.isNull THEN translateCatch(seen)
      ELSE IF data.hasData /\ Truthy(data.translatedText)
      THEN [seen EXCEPT
              !.pc = "done",
              !.result = Result(sanitizeInput(data.translatedText), "Remote")]
      ELSE translateCatch(seen)

\* Lines 297-308: response.json() settles.
translateOnJson(call, data) ==
  LET seen == [call EXCEPT !.data = data]
  IN  IF ~data.parsed \/ data.isNull THEN translateCatch(seen)
      ELSE IF /\ data.responseStatus = 200
              /\ data.hasData
              /\ Truthy(data.translatedText)
      THEN [seen EXCEPT
              !.pc = "done",
              !.result = Result(sanitizeInput(data.translatedText), "Remote")]
      ELSE translateCatch(seen)

----------------------------------------------------------------------------
(* The hook's state and what re-rendering does to the inactivity timer.    *)

\* The string a list of appended pieces stands for.
TextOf(pieces) == Flatten(pieces)

\* A handler that changed the hook's or App's state, or showed a notification
\* (which sets App's notification state), makes App render again.
\* showNotification is a new function at every render of App, so the effect
\* of lines 204-238 runs again: its cleanup clears the timeout and
\* resetTimer() starts a new one.
Rendered ==
  \/ emitted' # <<>>
  \/ isListening' # isListening
  \/ TextOf(transcript') # TextOf(transcript)
  \/ TextOf(translatedText') # TextOf(translatedText)
  \/ inputLanguage' # inputLanguage
  \/ outputLanguage' # outputLanguage

\* EffectTimer with an effect that runs once, at mount: no render starts
\* the timeout again.
EffectTimerAtMount == timer' = timer

EffectTimer == timer' = IF Rendered THEN "pending" ELSE timer

\* The invocations that still await the network; one that has settled has
\* handed its result to the handler that awaited it and is gone.
InFlight(cs) == SelectSeq(cs, LAMBDA c : c.pc \in {"fetch", "json"})

\* AwaitTranslate dropping the result of a call that settles after the
\* session stopped listening.
AwaitTranslateWhileListening(call) ==
  IF call.pc = "done" /\ isListening
  THEN /\ translatedText' = Append(translatedText, <<" ">> \o call.result.text)
       /\ emitted' = call.notes
  ELSE /\ translatedText' = translatedText
       /\ emitted' = call.notes

\* AwaitTranslate putting the new piece in front of the earlier ones.
AwaitTranslateInFront(call) ==
  IF call.pc = "done"
  THEN /\ translatedText' = << <<" ">> \o call.result.text >> \o translatedText
       /\ emitted' = call.notes
  ELSE IF call.pc = "rejected"
  THEN /\ translatedText' = translatedText
       /\ emitted' = call.notes \o << Note("Translation error occurred", "error") >>
  ELSE /\ translatedText' = translatedText
       /\ emitted' = call.notes

\* Lines 485-495 of onresult, resumed when the awaited call settles.
AwaitTranslate(call) ==
  IF call.pc = "done"
  THEN /\ translatedText' = Append(translatedText, <<" ">> \o call.result.text)
       /\ emitted' = call.notes
  ELSE IF call.pc = "rejected"
  THEN /\ translatedText' = translatedText
       /\ emitted' = call.notes \o << Note("Translation error occurred", "error") >>
  ELSE /\ translatedText' = translatedText
       /\ emitted' = call.notes

----------------------------------------------------------------------------
(* The recognition streams.  A stream is "starting" from start() until the *)
(* engine fires onstart, then "running"; stop() makes it "stopping", an    *)
(* error "errored"; onend makes it "ended".  Its handlers keep the         *)
(* languages of the render that created it.                                *)

MaxStreams == 1
MaxCalls == 1

Stream(phase, inLang, outLang) ==
  [phase |-> phase, inputLanguage |-> inLang, outputLanguage |-> outLang]

\* stopStream making a stream that is over stop again.
stopStreamAgain(ss, s) == [ss EXCEPT ![s].phase = "stopping"]

\* recognition.stop() on stream s.
stopStream(ss, s) ==
  IF ss[s].phase \in {"starting", "running"}
  THEN [ss EXCEPT ![s].phase = "stopping"] ELSE ss

\* Lines 530-536, on the streams ss.
stopListening(ss) ==
  /\ streams' = IF recognitionRef # 0 THEN stopStream(ss, recognitionRef)
                ELSE ss
  /\ recognitionRef' = 0
  /\ isListening' = FALSE

\* StartListening without the test of lines 442-451 for the capability.
StartListeningUnchecked ==
  /\ ~isListening
  /\ lastOp' = "startListening"
  /\ Len(streams) < MaxStreams
  /\ emitted' = <<>>
  /\ streams' = Append(streams,
                       Stream("starting", inputLanguage, outputLanguage))
  /\ recognitionRef' = Len(streams) + 1
  /\ UNCHANGED <<isListening, transcript, translatedText, inputLanguage,
                 outputLanguage, calls, dispatched, hasRecognition, harnessVars>>
  /\ EffectTimer

\* Lines 440-525: the Start button (disabled while isListening).
StartListening ==
  /\ ~isListening
  /\ lastOp' = "startListening"
  /\ IF ~hasRecognition
     THEN /\ emitted' = << Note("Speech recognition is not supported in this browser. Please use Chrome or Edge.", "error") >>
          /\ UNCHANGED <<streams, recognitionRef>>
     ELSE /\ Len(streams) < MaxStreams
          /\ \E throws \in BOOLEAN :
               IF throws
               THEN /\ emitted' = << Note("Error starting speech recognition", "error") >>
                    /\ UNCHANGED <<streams, recognitionRef>>
               ELSE /\ emitted' = <<>>
                    /\ streams' = Append(streams,
                         Stream("starting", inputLanguage, outputLanguage))
                    /\ recognitionRef' = Len(streams) + 1
  /\ UNCHANGED <<isListening, transcript, translatedText, inputLanguage,
                 outputLanguage, calls, dispatched, hasRecognition, harnessVars>>
  /\ EffectTimer

\* Lines 460-463.
OnStart(s) ==
  /\ streams[s].phase = "starting"
  /\ streams' = [streams EXCEPT ![s].phase = "running"]
  /\ isListening' = TRUE
  /\ emitted' = << Note("Listening...", "info") >>
  /\ lastOp' = "onstart"
  /\ UNCHANGED <<transcript, translatedText, recognitionRef, inputLanguage,
                 outputLanguage, calls, dispatched, hasRecognition, harnessVars>>
  /\ EffectTimer

\* The entries of a result event from event.resultIndex on.
Entry(isFinal, text) == [isFinal |-> isFinal, transcript |-> text]

Utterances == { <<"f","e","v","e","r">>, <<"H","e","l","p"," ","m","e">> }

Batches ==
  { <<Entry(TRUE, u)>> : u \in Utterances }
    \cup { <<Entry(FALSE, u)>> : u \in Utterances }

\* finalTranscriptOf taking every entry, final or not.
finalTranscriptOfAll(batch) ==
  Flatten([k \in DOMAIN batch |-> batch[k].transcript \o <<" ">>])

\* Lines 466-472.
RECURSIVE finalTranscriptOf(_)
finalTranscriptOf(batch) ==
  IF batch = <<>> THEN <<>>
  ELSE (IF Head(batch).isFinal THEN Head(batch).transcript \o <<" ">> ELSE <<>>)
         \o finalTranscriptOf(Tail(batch))

InputTags == { <<"e","n","-","U","S">>, <<"r","u","-","R","U">> }
OutputCodes == { <<"e","n">>, <<"e","s">> }

RemoteTexts == { <<"<","b",">","f","i","e","b","r","e","<","/","b",">">> }

Payloads ==
  { Payload(FALSE, FALSE, -1, FALSE, Undefined),
    Payload(TRUE, TRUE, -1, FALSE, Undefined),
    Payload(TRUE, FALSE, 403, TRUE, Str(<<"Q","U","O","T","A">>)),
    Payload(TRUE, FALSE, 200, FALSE, Undefined),
    Payload(TRUE, FALSE, 200, TRUE, Undefined),
    Payload(TRUE, FALSE, 200, TRUE, Str(<<>>)),
    Payload(TRUE, FALSE, 200, TRUE, [t |-> "number", v |-> <<>>]) }
    \cup { Payload(TRUE, FALSE, 200, TRUE, Str(r)) : r \in RemoteTexts }

\* No invocation: the event had no final entry (line 474).
NoCall == [pc |-> "none"]

\* recognise sending the sanitized transcript, not the enhanced one, to
\* translation.
recogniseTranslatingCommon(batch, inLang, outLang) ==
  LET finalTranscript == finalTranscriptOf(batch)
      sanitizedTranscript == sanitizeInput(Str(finalTranscript))
      enhancedTranscript == enhanceMedicalTerms(sanitizedTranscript)
      sourceLang == detectInputLanguage(inLang)
  IN  [finalTranscript |-> finalTranscript,
       enhancedTranscript |-> enhancedTranscript,
       call |-> IF finalTranscript = <<>> THEN NoCall
                ELSE translateBegin(sanitizedTranscript, outLang, sourceLang.v)]

\* Lines 466-486 of onresult: what the handler computes from the entries of
\* the event and the languages of its render, up to the first await.
recognise(batch, inLang, outLang) ==
  LET finalTranscript == finalTranscriptOf(batch)
      sanitizedTranscript == sanitizeInput(Str(finalTranscript))
      enhancedTranscript == enhanceMedicalTerms(sanitizedTranscript)
      sourceLang == detectInputLanguage(inLang)
  IN  [finalTranscript |-> finalTranscript,
       enhancedTranscript |-> enhancedTranscript,
       call |-> IF finalTranscript = <<>> THEN NoCall
                ELSE translateBegin(enhancedTranscript, outLang, sourceLang.v)]

\* recognise, tabulated over the events and languages of the session.
recognised ==
  [b \in Batches, i \in InputTags, o \in OutputCodes |-> recognise(b, i, o)]
    @@ << >>

\* The invocations of the session that await their fetch, and those that
\* await response.json(), with translateOnResponse and translateOnJson
\* tabulated over them.
AwaitingFetch ==
  { c \in { recognised[x].call : x \in DOMAIN recognised } : c.pc = "fetch" }

onResponse ==
  [c \in AwaitingFetch, r \in Responses |-> translateOnResponse(c, r)] @@ << >>

AwaitingJson == { onResponse[c, "ok"] : c \in AwaitingFetch }

onJson ==
  [c \in AwaitingJson, d \in Payloads |-> translateOnJson(c, d)] @@ << >>

\* OnResult reading the languages selected now, not those of the render
\* that created the stream.
OnResultCurrentLanguages(s, batch) ==
  /\ streams[s].phase \in {"running", "stopping"}
  /\ lastOp' = "onresult"
  /\ LET r == recognised[batch, inputLanguage, outputLanguage]
     IN  IF r.finalTranscript = <<>>
         THEN /\ emitted' = <<>>
              /\ UNCHANGED <<transcript, translatedText, calls, dispatched>>
         ELSE /\ dispatched < MaxCalls
              /\ dispatched' = dispatched + 1
              /\ transcript' = Append(transcript, r.enhancedTranscript)
              /\ calls' = InFlight(Append(calls, r.call))
              /\ AwaitTranslate(r.call)
  /\ UNCHANGED <<isListening, recognitionRef, inputLanguage, outputLanguage,
                 streams, hasRecognition, harnessVars>>
  /\ EffectTimer

\* Lines 465-497: a result event of stream s.  The translation runs to its
\* first await inside the handler; a call that settles without a fetch is
\* resumed before any other event.
OnResult(s, batch) ==
  /\ streams[s].phase \in {"running", "stopping"}
  /\ lastOp' = "onresult"
  /\ LET r == recognised[batch, streams[s].inputLanguage,
                         streams[s].outputLanguage]
     IN  IF r.finalTranscript = <<>>
         THEN /\ emitted' = <<>>
              /\ UNCHANGED <<transcript, translatedText, calls, dispatched>>
         ELSE /\ dispatched < MaxCalls
              /\ dispatched' = dispatched + 1
              /\ transcript' = Append(transcript, r.enhancedTranscript)
              /\ calls' = InFlight(Append(calls, r.call))
              /\ AwaitTranslate(r.call)
  /\ UNCHANGED <<isListening, recognitionRef, inputLanguage, outputLanguage,
                 streams, hasRecognition, harnessVars>>
  /\ EffectTimer

ErrorKinds == {"not-allowed", "network"}

\* OnError without the call of stopListening.
OnErrorNoStop(s, kind) ==
  /\ streams[s].phase \in {"starting", "running", "stopping"}
  /\ streams' = [streams EXCEPT ![s].phase = "errored"]
  /\ emitted' = IF kind = "not-allowed"
                THEN << Note("Microphone access is not allowed. Please enable microphone permissions.", "error") >>
                ELSE << NoteArgs("Error: ${event.error}", "error", <<kind>>) >>
  /\ lastOp' = "onerror"
  /\ UNCHANGED <<isListening, recognitionRef, transcript, translatedText,
                 inputLanguage, outputLanguage, calls, dispatched,
                 hasRecognition, harnessVars>>
  /\ EffectTimer

\* Lines 499-511.
OnError(s, kind) ==
  /\ streams[s].phase \in {"starting", "running", "stopping"}
  /\ stopListening([streams EXCEPT ![s].phase = "errored"])
  /\ emitted' = IF kind = "not-allowed"
                THEN << Note("Microphone access is not allowed. Please enable microphone permissions.", "error") >>
                ELSE << NoteArgs("Error: ${event.error}", "error", <<kind>>) >>
  /\ lastOp' = "onerror"
  /\ UNCHANGED <<transcript, translatedText, inputLanguage, outputLanguage,
                 calls, dispatched, hasRecognition, harnessVars>>
  /\ EffectTimer

\* Lines 513-516.
OnEnd(s) ==
  /\ streams[s].phase \in {"running", "stopping", "errored"}
  /\ streams' = [streams EXCEPT ![s].phase = "ended"]
  /\ isListening' = FALSE
  /\ emitted' = << Note("Stopped listening", "info") >>
  /\ lastOp' = "onend"
  /\ UNCHANGED <<transcript, translatedText, recognitionRef, inputLanguage,
                 outputLanguage, calls, dispatched, hasRecognition, harnessVars>>
  /\ EffectTimer

\* The Stop button (disabled unless isListening).
StopListening ==
  /\ isListening
  /\ stopListening(streams)
  /\ emitted' = <<>>
  /\ lastOp' = "stopListening"
  /\ UNCHANGED <<transcript, translatedText, inputLanguage, outputLanguage,
                 calls, dispatched, hasRecognition, harnessVars>>
  /\ EffectTimer

\* ClearText ending the session as well: the stream held is stopped and the
\* calls in flight are dropped.
ClearTextAndStop ==
  /\ transcript' = <<>>
  /\ translatedText' = <<>>
  /\ emitted' = << Note("Text cleared", "info") >>
  /\ lastOp' = "clearText"
  /\ stopListening(streams)
  /\ calls' = <<>>
  /\ UNCHANGED <<inputLanguage, outputLanguage, dispatched, hasRecognition,
                 harnessVars>>
  /\ EffectTimer

\* Lines 541-545: the Clear button.
ClearText ==
  /\ transcript' = <<>>
  /\ translatedText' = <<>>
  /\ emitted' = << Note("Text cleared", "info") >>
  /\ lastOp' = "clearText"
  /\ UNCHANGED <<isListening, recognitionRef, inputLanguage, outputLanguage,
                 streams, calls, dispatched, hasRecognition, harnessVars>>
  /\ EffectTimer

\* The fetch of the c-th call in flight settles.
FetchSettles(c, response) ==
  /\ calls[c].pc = "fetch"
  /\ LET call == onResponse[calls[c], response]
     IN  /\ calls' = InFlight([calls EXCEPT ![c] = call])
         /\ AwaitTranslate(call)
  /\ lastOp' = "fetch"
  /\ UNCHANGED <<isListening, transcript, recognitionRef, inputLanguage,
                 outputLanguage, streams, dispatched, hasRecognition, harnessVars>>
  /\ EffectTimer

\* response.json() of the c-th call in flight settles.
JsonSettles(c, data) ==
  /\ calls[c].pc = "json"
  /\ LET call == onJson[calls[c], data]
     IN  /\ calls' = InFlight([calls EXCEPT ![c] = call])
         /\ AwaitTranslate(call)
  /\ lastOp' = "json"
  /\ UNCHANGED <<isListening, transcript, recognitionRef, inputLanguage,
                 outputLanguage, streams, dispatched, hasRecognition, harnessVars>>
  /\ EffectTimer

\* Lines 206-226: a mousedown, keypress, scroll or touchstart event.
ResetTimer ==
  /\ timer' = "pending"
  /\ emitted' = <<>>
  /\ lastOp' = "resetTimer"
  /\ UNCHANGED <<isListening, transcript, translatedText, recognitionRef,
                 inputLanguage, outputLanguage, streams, calls, dispatched,
                 hasRecognition, harnessVars>>

\* timeoutCallback deciding on the transcript alone.
timeoutCallbackTranscriptOnly ==
  IF TextOf(transcript) # <<>>
  THEN /\ transcript' = <<>>
       /\ translatedText' = <<>>
       /\ emitted' = << Note("Patient data cleared for security", "info") >>
  ELSE /\ emitted' = <<>>
       /\ UNCHANGED <<transcript, translatedText>>

\* timeoutCallback clearing and notifying whatever the texts hold.
timeoutCallbackAlways ==
  /\ transcript' = <<>>
  /\ translatedText' = <<>>
  /\ emitted' = << Note("Patient data cleared for security", "info") >>

\* Lines 212-218: the callback given to setTimeout.  The effect runs again
\* whenever transcript or translatedText changes, so the callback of the
\* pending timeout reads their current values.
timeoutCallback ==
  IF TextOf(transcript) # <<>> \/ TextOf(translatedText) # <<>>
  THEN /\ transcript' = <<>>
       /\ translatedText' = <<>>
       /\ emitted' = << Note("Patient data cleared for security", "info") >>
  ELSE /\ emitted' = <<>>
       /\ UNCHANGED <<transcript, translatedText>>

\* The pending timeout is due and its callback runs.  No timeout is pending
\* afterwards unless the callback made App render again.
TimerFires ==
  /\ timer = "due"
  /\ lastOp' = "timeout"
  /\ timeoutCallback
  /\ UNCHANGED <<isListening, recognitionRef, inputLanguage, outputLanguage,
                 streams, calls, dispatched, hasRecognition, harnessVars>>
  /\ timer' = IF Rendered THEN "pending" ELSE "none"

\* The 5 * 60 * 1000 ms of line 218 pass since the timeout was started,
\* with no handler running in between.
Elapse ==
  /\ timer = "pending"
  /\ timer' = "due"
  /\ UNCHANGED <<isListening, transcript, translatedText, recognitionRef,
                 inputLanguage, outputLanguage, streams, calls, dispatched,
                 emitted, lastOp, hasRecognition, harnessVars>>

\* The state once App has rendered and the two languages have been chosen
\* in the selectors (App.jsx, lines 15-16 and 71-72), with the inactivity
\* timeout started (line 227) and nothing recognised yet.
InitSession ==
  /\ isListening = FALSE
  /\ transcript = <<>>
  /\ translatedText = <<>>
  /\ recognitionRef = 0
  /\ inputLanguage \in InputTags
  /\ outputLanguage \in OutputCodes
  /\ streams = <<>>
  /\ calls = <<>>
  /\ dispatched = 0
  /\ timer = "pending"
  /\ emitted = <<>>
  /\ lastOp = "mount"
  /\ hasRecognition \in BOOLEAN

\* No function called by a harness, no timeout of the timer slice.
NoProbe == [fn |-> "none"]

InitProbes ==
  /\ probe = NoProbe
  /\ timeouts = <<>>
  /\ inactivityTimerRef = 0

\* Nothing delivered to the harnesses, nothing spoken, the view mounted.
InitSlices ==
  /\ event = <<>>
  /\ utterances = <<>>
  /\ hasSynthesis = TRUE
  /\ mounted = TRUE
  /\ InitProbes

Init ==
  /\ InitSession
  /\ sanIn = <<>>
  /\ sanOut = <<>>
  /\ invocation = NoCall
  /\ InitSlices

Next ==
  \/ StartListening
  \/ \E s \in DOMAIN streams : OnStart(s)
  \/ \E s \in DOMAIN streams : \E batch \in Batches : OnResult(s, batch)
  \/ \E s \in DOMAIN streams : \E kind \in ErrorKinds : OnError(s, kind)
  \/ \E s \in DOMAIN streams : OnEnd(s)
  \/ StopListening
  \/ ClearText
  \/ \E c \in DOMAIN calls : \E response \in Responses : FetchSettles(c, response)
  \/ \E c \in DOMAIN calls : \E data \in Payloads : JsonSettles(c, data)
  \/ ResetTimer
  \/ TimerFires
  \/ Elapse

Spec == Init /\ [][Next]_vars

----------------------------------------------------------------------------
(* The state after the first render of App with its default languages      *)
(* (App.jsx, lines 15-16), in which the two harnesses below run.           *)

InitDefaults ==
  /\ isListening = FALSE
  /\ transcript = <<>>
  /\ translatedText = <<>>
  /\ recognitionRef = 0
  /\ inputLanguage = <<"e","n","-","U","S">>
  /\ outputLanguage = <<"e","n">>
  /\ streams = <<>>
  /\ calls = <<>>
  /\ dispatched = 0
  /\ timer = "pending"
  /\ emitted = <<>>
  /\ lastOp = "mount"
  /\ hasRecognition = TRUE

----------------------------------------------------------------------------
(* The sanitize harness: sanitizeInput applied, and applied again to its   *)
(* own result, for every input built from at most MaxChunks chunks.        *)

MaxChunks == 3

SanChunks ==
  { <<"o","n">>, <<"e","r","r","o","r">>, <<"o","n","l","o","a","d">>, <<"O","N","C","L","I","C","K">>, <<"<">>, <<">">>, <<"/">>, <<"a">>, <<" ">>,
    <<"j","a","v","a","s","c","r","i","p","t",":">>, <<"j","a","v","a">>, <<"s","c","r","i","p","t">>, <<"<","s","c","r","i","p","t",">">> }

SanInputs ==
  { Flatten(cs) : cs \in UNION { [1..n -> SanChunks] : n \in 0..MaxChunks } }

InitSanitize ==
  /\ InitDefaults
  /\ sanIn \in SanInputs
  /\ sanOut = <<>>
  /\ invocation = NoCall
  /\ InitSlices

\* sanitizeInput applied to the input, then to its own result.
SanitizeApply ==
  /\ Len(sanOut) < 2
  /\ sanOut' = Append(sanOut,
       sanitizeInput(Str(IF sanOut = <<>> THEN sanIn ELSE sanOut[Len(sanOut)])))
  /\ UNCHANGED <<sanIn, invocation, sliceVars, sessionVars>>

NextSanitize == SanitizeApply

SpecSanitize == InitSanitize /\ [][NextSanitize]_vars

----------------------------------------------------------------------------
(* The translate harness: lines 485-495 of onresult with any text and any  *)
(* pair of language codes, and every way the network can answer.           *)

HarnessTexts ==
  { <<>>, <<"f","e","v","e","r">>, <<"I"," ","h","a","v","e"," ","p","a","i","n","!">>, <<"<","b",">","H","e","l","p","<","/","b",">"," ","m","e">>, <<"c","o","n","s","t","r","u","c","t","o","r">> }

\* Codes of the tables, and one that is in none of them.
SourceCodes == { <<"e","n">>, <<"e","s">>, <<"r","u">>, <<"x","x">> }
TargetCodes == { <<"e","n">>, <<"e","s">>, <<"a","r">>, <<"x","x">> }

Awaited ==
  /\ AwaitTranslate(invocation')
  /\ UNCHANGED <<isListening, transcript, recognitionRef, inputLanguage,
                 outputLanguage, streams, calls, dispatched, timer, lastOp,
                 hasRecognition, sanIn, sanOut, sliceVars>>

TranslateInvoke(text, sourceLang, targetLang) ==
  /\ invocation.pc = "none"
  /\ invocation' = translateBegin(text, targetLang, sourceLang)
  /\ Awaited

TranslateFetchSettles(response) ==
  /\ invocation.pc = "fetch"
  /\ invocation' = translateOnResponse(invocation, response)
  /\ Awaited

TranslateJsonSettles(data) ==
  /\ invocation.pc = "json"
  /\ invocation' = translateOnJson(invocation, data)
  /\ Awaited

InitTranslate ==
  /\ InitDefaults
  /\ sanIn = <<>>
  /\ sanOut = <<>>
  /\ invocation = NoCall
  /\ InitSlices

NextTranslate ==
  \/ \E text \in HarnessTexts : \E sourceLang \in SourceCodes :
       \E targetLang \in TargetCodes :
         TranslateInvoke(text, sourceLang, targetLang)
  \/ \E response \in Responses : TranslateFetchSettles(response)
  \/ \E data \in Payloads : TranslateJsonSettles(data)

SpecTranslate == InitTranslate /\ [][NextTranslate]_vars

----------------------------------------------------------------------------
(* The result harness: one result event, of any mix of final and interim   *)
(* entries, handled by onresult (lines 465-497) under any of the languages *)
(* below, and every way the network can answer its translation.            *)

HarnessBatches ==
  { << Entry(TRUE, <<"<","b",">","f","e","v","e","r","<","/","b",">">>) >>,
    << Entry(FALSE, <<"f","e","v","e","r">>) >>,
    << Entry(TRUE, <<"H","e","l","p"," ","m","e">>), Entry(FALSE, <<"p","a","i","n">>) >>,
    << Entry(FALSE, <<"p","a","i","n">>), Entry(TRUE, <<"H","e","l","p"," ","m","e">>) >>,
    << Entry(TRUE, <<"I"," ","h","a","v","e">>), Entry(TRUE, <<"p","a","i","n">>) >>,
    << Entry(FALSE, <<"I"," ","h","a","v","e">>), Entry(FALSE, <<"p","a","i","n">>) >> }

HarnessTags == { <<"e","n","-","U","S">>, <<"e","s","-","E","S">>, <<"r","u","-","R","U">> }
HarnessCodes == { <<"e","n">>, <<"e","s">>, <<"a","r">> }

ResultEvent(batch) ==
  /\ event = <<>>
  /\ event' = batch
  /\ LET r == recognise(batch, inputLanguage, outputLanguage)
     IN  IF r.finalTranscript = <<>>
         THEN /\ emitted' = <<>>
              /\ UNCHANGED <<transcript, translatedText, invocation>>
         ELSE /\ transcript' = Append(transcript, r.enhancedTranscript)
              /\ invocation' = r.call
              /\ AwaitTranslate(r.call)
  /\ UNCHANGED <<isListening, recognitionRef, inputLanguage, outputLanguage,
                 streams, calls, dispatched, timer, lastOp, hasRecognition,
                 sanIn, sanOut, utterances, hasSynthesis, mounted, probeVars>>

ResultFetchSettles(response) ==
  /\ event # <<>>
  /\ TranslateFetchSettles(response)

ResultJsonSettles(data) ==
  /\ event # <<>>
  /\ TranslateJsonSettles(data)

InitResult ==
  /\ isListening = TRUE
  /\ transcript = <<>>
  /\ translatedText = <<>>
  /\ recognitionRef = 1
  /\ inputLanguage \in HarnessTags
  /\ outputLanguage \in HarnessCodes
  /\ streams = << Stream("running", inputLanguage, outputLanguage) >>
  /\ calls = <<>>
  /\ dispatched = 0
  /\ timer = "pending"
  /\ emitted = << Note("Listening...", "info") >>
  /\ lastOp = "onstart"
  /\ hasRecognition = TRUE
  /\ sanIn = <<>>
  /\ sanOut = <<>>
  /\ invocation = NoCall
  /\ InitSlices

NextResult ==
  \/ \E batch \in HarnessBatches : ResultEvent(batch)
  \/ \E response \in Responses : ResultFetchSettles(response)
  \/ \E data \in Payloads : ResultJsonSettles(data)

SpecResult == InitResult /\ [][NextResult]_vars

----------------------------------------------------------------------------
(* The session from App's default input language and one output language,  *)
(* for the properties of the recognition engine's events, which do not     *)
(* depend on the languages.                                                *)

InitEngine ==
  /\ Init
  /\ inputLanguage = <<"e","n","-","U","S">>
  /\ outputLanguage = <<"e","s">>

SpecEngine == InitEngine /\ [][Next]_vars


----------------------------------------------------------------------------
(* The session with stopListening, which the hook returns to its host,     *)
(* also called while isListening is false (the Stop button is then         *)
(* disabled, line 28 of ControlButtons.jsx).                               *)

\* Lines 530-536, called while isListening is false.
StopIdle ==
  /\ ~isListening
  /\ stopListening(streams)
  /\ emitted' = <<>>
  /\ lastOp' = "stopListening"
  /\ UNCHANGED <<transcript, translatedText, inputLanguage, outputLanguage,
                 calls, dispatched, hasRecognition, harnessVars>>
  /\ EffectTimer

NextStop ==
  \/ Next
  \/ StopIdle

SpecStop == InitEngine /\ [][NextStop]_vars

----------------------------------------------------------------------------
(* Speech output: speakTranslation (lines 551-575) and speechSynthesis, on *)
(* the texts a session has left, with Clear and the inactivity timeout.    *)
(* An utterance is "speaking" from speak() until its end event, or         *)
(* "interrupted" once cancel() has removed it, until the browser delivers  *)
(* the event that closes it.                                               *)

MaxSpeaks == 2

Utterance(text, lang, phase) == [text |-> text, lang |-> lang, phase |-> phase]

\* speechSynthesis.cancel(): the queue is emptied and what was being spoken
\* stops.
cancel(us) == [u \in DOMAIN us |-> [us[u] EXCEPT !.phase = "interrupted"]]

\* speakTranslation submitting the utterance without cancel().
SpeakTranslationQueued ==
  /\ lastOp' = "speakTranslation"
  /\ IF TextOf(translatedText) = <<>>
     THEN /\ emitted' = <<>>
          /\ UNCHANGED utterances
     ELSE IF ~hasSynthesis
     THEN /\ emitted' = << Note("Speech synthesis is not supported in this browser.", "error") >>
          /\ UNCHANGED utterances
     ELSE /\ Len(utterances) < MaxSpeaks
          /\ utterances' = Append(utterances,
               Utterance(TextOf(translatedText), outputLanguage, "speaking"))
          /\ emitted' = << Note("Playing translation", "info") >>
  /\ UNCHANGED <<isListening, transcript, translatedText, recognitionRef,
                 inputLanguage, outputLanguage, streams, calls, dispatched,
                 hasRecognition, sanIn, sanOut, invocation, event,
                 hasSynthesis, mounted, probeVars>>
  /\ EffectTimer

\* speakTranslation testing the capability before the text.
SpeakTranslationSupportFirst ==
  /\ lastOp' = "speakTranslation"
  /\ IF ~hasSynthesis
     THEN /\ emitted' = << Note("Speech synthesis is not supported in this browser.", "error") >>
          /\ UNCHANGED utterances
     ELSE IF TextOf(translatedText) = <<>>
     THEN /\ emitted' = <<>>
          /\ UNCHANGED utterances
     ELSE /\ Len(utterances) < MaxSpeaks
          /\ utterances' = Append(cancel(utterances),
               Utterance(TextOf(translatedText), outputLanguage, "speaking"))
          /\ emitted' = << Note("Playing translation", "info") >>
  /\ UNCHANGED <<isListening, transcript, translatedText, recognitionRef,
                 inputLanguage, outputLanguage, streams, calls, dispatched,
                 hasRecognition, sanIn, sanOut, invocation, event,
                 hasSynthesis, mounted, probeVars>>
  /\ EffectTimer

\* Lines 551-575: the Speak button.
SpeakTranslation ==
  /\ lastOp' = "speakTranslation"
  /\ IF TextOf(translatedText) = <<>>
     THEN /\ emitted' = <<>>
          /\ UNCHANGED utterances
     ELSE IF ~hasSynthesis
     THEN /\ emitted' = << Note("Speech synthesis is not supported in this browser.", "error") >>
          /\ UNCHANGED utterances
     ELSE /\ Len(utterances) < MaxSpeaks
          /\ utterances' = Append(cancel(utterances),
               Utterance(TextOf(translatedText), outputLanguage, "speaking"))
          /\ emitted' = << Note("Playing translation", "info") >>
  /\ UNCHANGED <<isListening, transcript, translatedText, recognitionRef,
                 inputLanguage, outputLanguage, streams, calls, dispatched,
                 hasRecognition, sanIn, sanOut, invocation, event,
                 hasSynthesis, mounted, probeVars>>
  /\ EffectTimer

\* us without its u-th utterance.
without(us, u) == SubSeq(us, 1, u - 1) \o SubSeq(us, u + 1, Len(us))

\* Lines 568-570: utterance u has been spoken to its end.
UtteranceEnds(u) ==
  /\ utterances[u].phase = "speaking"
  /\ utterances' = without(utterances, u)
  /\ emitted' = << Note("Finished playing translation", "info") >>
  /\ lastOp' = "utterance.onend"
  /\ UNCHANGED <<isListening, transcript, translatedText, recognitionRef,
                 inputLanguage, outputLanguage, streams, calls, dispatched,
                 hasRecognition, sanIn, sanOut, invocation, event,
                 hasSynthesis, mounted, probeVars>>
  /\ EffectTimer

\* The browser closes utterance u, which cancel() interrupted, with an end
\* event (the handler of lines 568-570 runs) or with an error event (no
\* handler is attached).
UtteranceInterrupted(u, asEnd) ==
  /\ utterances[u].phase = "interrupted"
  /\ utterances' = without(utterances, u)
  /\ emitted' = IF asEnd
                THEN << Note("Finished playing translation", "info") >>
                ELSE <<>>
  /\ lastOp' = IF asEnd THEN "utterance.onend" ELSE "utterance.onerror"
  /\ UNCHANGED <<isListening, transcript, translatedText, recognitionRef,
                 inputLanguage, outputLanguage, streams, calls, dispatched,
                 hasRecognition, sanIn, sanOut, invocation, event,
                 hasSynthesis, mounted, probeVars>>
  /\ EffectTimer

\* What a session can have left in the two texts.
LeftTexts ==
  { << <<>>, <<>> >>,
    << << <<"p","y","r","e","x","i","a">> >>, << <<" ","f","i","e","b","r","e">> >> >>,
    << << <<"p","y","r","e","x","i","a">>, <<"H","e","l","p"," ","m","e">> >>, << <<" ","f","i","e","b","r","e">>, <<" ","a","y","u","d","a"," ","m","e">> >> >> }

InitSpeak ==
  /\ isListening = FALSE
  /\ \E texts \in LeftTexts :
       /\ transcript = texts[1]
       /\ translatedText = texts[2]
  /\ recognitionRef = 0
  /\ inputLanguage = <<"e","n","-","U","S">>
  /\ outputLanguage = <<"e","s">>
  /\ streams = <<>>
  /\ calls = <<>>
  /\ dispatched = 0
  /\ timer = "pending"
  /\ emitted = <<>>
  /\ lastOp = "resetTimer"
  /\ hasRecognition = TRUE
  /\ sanIn = <<>>
  /\ sanOut = <<>>
  /\ invocation = NoCall
  /\ event = <<>>
  /\ utterances = <<>>
  /\ hasSynthesis \in BOOLEAN
  /\ mounted = TRUE
  /\ InitProbes

NextSpeak ==
  \/ SpeakTranslation
  \/ \E u \in DOMAIN utterances : UtteranceEnds(u)
  \/ \E u \in DOMAIN utterances : \E asEnd \in BOOLEAN :
       UtteranceInterrupted(u, asEnd)
  \/ ClearText
  \/ ResetTimer
  \/ TimerFires
  \/ Elapse

SpecSpeak == InitSpeak /\ [][NextSpeak]_vars

----------------------------------------------------------------------------
(* The hosting view unmounts.  The only cleanup the hook registers is the  *)
(* one of the inactivity effect (lines 229-237).  The recognition object,  *)
(* its handlers and the calls in flight outlive the component: their       *)
(* state setters and notifications reach a component that is gone and are  *)
(* dropped, what they do to the stream, the ref and the network is not.    *)

\* Lines 229-237, the one cleanup of the hook: the timeout is cleared and
\* the activity listeners are removed.  Nothing stops the stream held.
Unmount ==
  /\ mounted
  /\ mounted' = FALSE
  /\ timer' = "none"
  /\ emitted' = <<>>
  /\ lastOp' = "unmount"
  /\ UNCHANGED <<isListening, transcript, translatedText, recognitionRef,
                 inputLanguage, outputLanguage, streams, calls, dispatched,
                 hasRecognition, sanIn, sanOut, invocation, event, utterances,
                 hasSynthesis, probeVars>>

\* Lines 460-463 after the unmount.
OnStartUnmounted(s) ==
  /\ ~mounted
  /\ streams[s].phase = "starting"
  /\ streams' = [streams EXCEPT ![s].phase = "running"]
  /\ emitted' = <<>>
  /\ lastOp' = "onstart"
  /\ UNCHANGED <<isListening, transcript, translatedText, recognitionRef,
                 inputLanguage, outputLanguage, calls, dispatched, timer,
                 hasRecognition, harnessVars>>

\* Lines 465-497 after the unmount: the translation is still requested.
OnResultUnmounted(s, batch) ==
  /\ ~mounted
  /\ streams[s].phase \in {"running", "stopping"}
  /\ lastOp' = "onresult"
  /\ emitted' = <<>>
  /\ LET r == recognised[batch, streams[s].inputLanguage,
                         streams[s].outputLanguage]
     IN  IF r.finalTranscript = <<>>
         THEN UNCHANGED <<calls, dispatched>>
         ELSE /\ dispatched < MaxCalls
              /\ dispatched' = dispatched + 1
              /\ calls' = InFlight(Append(calls, r.call))
  /\ UNCHANGED <<isListening, transcript, translatedText, recognitionRef,
                 inputLanguage, outputLanguage, streams, timer,
                 hasRecognition, harnessVars>>

\* Lines 499-511 after the unmount: stopListening still stops the stream
\* held and releases it.
OnErrorUnmounted(s, kind) ==
  /\ ~mounted
  /\ streams[s].phase \in {"starting", "running", "stopping"}
  /\ streams' = IF recognitionRef # 0
                THEN stopStream([streams EXCEPT ![s].phase = "errored"],
                                recognitionRef)
                ELSE [streams EXCEPT ![s].phase = "errored"]
  /\ recognitionRef' = 0
  /\ emitted' = <<>>
  /\ lastOp' = "onerror"
  /\ UNCHANGED <<isListening, transcript, translatedText, inputLanguage,
                 outputLanguage, calls, dispatched, timer, hasRecognition,
                 harnessVars>>

\* Lines 513-516 after the unmount.
OnEndUnmounted(s) ==
  /\ ~mounted
  /\ streams[s].phase \in {"running", "stopping", "errored"}
  /\ streams' = [streams EXCEPT ![s].phase = "ended"]
  /\ emitted' = <<>>
  /\ lastOp' = "onend"
  /\ UNCHANGED <<isListening, transcript, translatedText, recognitionRef,
                 inputLanguage, outputLanguage, calls, dispatched, timer,
                 hasRecognition, harnessVars>>

\* The fetch of the c-th call in flight settles after the unmount.
FetchSettlesUnmounted(c, response) ==
  /\ ~mounted
  /\ calls[c].pc = "fetch"
  /\ calls' = InFlight([calls EXCEPT ![c] = onResponse[calls[c], response]])
  /\ emitted' = <<>>
  /\ lastOp' = "fetch"
  /\ UNCHANGED <<isListening, transcript, translatedText, recognitionRef,
                 inputLanguage, outputLanguage, streams, dispatched, timer,
                 hasRecognition, harnessVars>>

\* response.json() of the c-th call in flight settles after the unmount.
JsonSettlesUnmounted(c, data) ==
  /\ ~mounted
  /\ calls[c].pc = "json"
  /\ calls' = InFlight([calls EXCEPT ![c] = onJson[calls[c], data]])
  /\ emitted' = <<>>
  /\ lastOp' = "json"
  /\ UNCHANGED <<isListening, transcript, translatedText, recognitionRef,
                 inputLanguage, outputLanguage, streams, dispatched, timer,
                 hasRecognition, harnessVars>>

NextUnmount ==
  \/ mounted /\ StartListening
  \/ mounted /\ \E s \in DOMAIN streams : OnStart(s)
  \/ mounted /\ \E s \in DOMAIN streams : \E batch \in Batches : OnResult(s, batch)
  \/ mounted /\ \E s \in DOMAIN streams : \E kind \in ErrorKinds : OnError(s, kind)
  \/ mounted /\ \E s \in DOMAIN streams : OnEnd(s)
  \/ mounted /\ StopListening
  \/ mounted /\ ClearText
  \/ mounted /\ \E c \in DOMAIN calls : \E response \in Responses : FetchSettles(c, response)
  \/ mounted /\ \E c \in DOMAIN calls : \E data \in Payloads : JsonSettles(c, data)
  \/ mounted /\ ResetTimer
  \/ mounted /\ TimerFires
  \/ mounted /\ Elapse
  \/ Unmount
  \/ \E s \in DOMAIN streams : OnStartUnmounted(s)
  \/ \E s \in DOMAIN streams : \E batch \in Batches : OnResultUnmounted(s, batch)
  \/ \E s \in DOMAIN streams : \E kind \in ErrorKinds : OnErrorUnmounted(s, kind)
  \/ \E s \in DOMAIN streams : OnEndUnmounted(s)
  \/ \E c \in DOMAIN calls : \E response \in Responses : FetchSettlesUnmounted(c, response)
  \/ \E c \in DOMAIN calls : \E data \in Payloads : JsonSettlesUnmounted(c, data)

SpecUnmount == InitEngine /\ [][NextUnmount]_vars

----------------------------------------------------------------------------
(* Several results of one running stream, each with its translation in     *)
(* flight: the handlers of the result events and the continuations of the  *)
(* awaited calls run one at a time, in the order the engine and the        *)
(* network deliver them.                                                   *)

MaxResults == 2

\* Lines 465-497: a result event of the running stream, for at most
\* MaxResults final results.
ResultArrives(batch) ==
  /\ streams[1].phase = "running"
  /\ lastOp' = "onresult"
  /\ LET r == recognised[batch, streams[1].inputLanguage,
                         streams[1].outputLanguage]
     IN  IF r.finalTranscript = <<>>
         THEN /\ emitted' = <<>>
              /\ UNCHANGED <<transcript, translatedText, calls, dispatched>>
         ELSE /\ dispatched < MaxResults
              /\ dispatched' = dispatched + 1
              /\ transcript' = Append(transcript, r.enhancedTranscript)
              /\ calls' = InFlight(Append(calls, r.call))
              /\ AwaitTranslate(r.call)
  /\ UNCHANGED <<isListening, recognitionRef, inputLanguage, outputLanguage,
                 streams, hasRecognition, harnessVars>>
  /\ EffectTimer

\* The stream is running, recognising English for a Spanish reader.
InitRunning ==
  /\ isListening = TRUE
  /\ transcript = <<>>
  /\ translatedText = <<>>
  /\ recognitionRef = 1
  /\ inputLanguage = <<"e","n","-","U","S">>
  /\ outputLanguage = <<"e","s">>
  /\ streams = << Stream("running", inputLanguage, outputLanguage) >>
  /\ calls = <<>>
  /\ dispatched = 0
  /\ timer = "pending"
  /\ emitted = << Note("Listening...", "info") >>
  /\ lastOp = "onstart"
  /\ hasRecognition = TRUE
  /\ sanIn = <<>>
  /\ sanOut = <<>>
  /\ invocation = NoCall
  /\ InitSlices

NextOrder ==
  \/ \E batch \in Batches : ResultArrives(batch)
  \/ \E c \in DOMAIN calls : \E response \in Responses : FetchSettles(c, response)
  \/ \E c \in DOMAIN calls : \E data \in Payloads : JsonSettles(c, data)

SpecOrder == InitRunning /\ [][NextOrder]_vars

----------------------------------------------------------------------------
(* The fallback harness: handleFallbackTranslation (lines 390-417) called  *)
(* as translateWithMyMemory calls it, with a sanitized text of at most     *)
(* MaxWords words and a target code.                                       *)

MaxWords == 2

\* Words in either case, with punctuation, of the vocabularies and not; the
\* last is the name of a property every object inherits.
FallbackTokens ==
  { <<"F","e","v","e","r">>, <<"f","e","v","e","r",",">>, <<"h","e","l","l","o">>, <<"h","e","a","d","a","c","h","e">>, <<"c","o","n","s","t","r","u","c","t","o","r">> }

\* What is left between two words: one space, or two where a tag was
\* removed from between them.
Separators == { <<" ">>, <<" "," ">> }

RECURSIVE TextsOf(_)
TextsOf(n) ==
  IF n = 0 THEN { <<>> }
  ELSE IF n = 1 THEN FallbackTokens
  ELSE { t \o sep \o w : t \in TextsOf(n - 1), sep \in Separators,
                         w \in FallbackTokens }

FallbackTexts == UNION { TextsOf(n) : n \in 0..MaxWords }

\* A code with a vocabulary, one whose vocabulary is the identity, one with
\* a display name only, one with neither.
FallbackTargets == { <<"e","s">>, <<"e","n">>, <<"a","r">>, <<"x","x">> }

InitFallback ==
  /\ InitDefaults
  /\ sanIn = <<>>
  /\ sanOut = <<>>
  /\ invocation = NoCall
  /\ event = <<>>
  /\ utterances = <<>>
  /\ hasSynthesis = TRUE
  /\ mounted = TRUE
  /\ \E text \in FallbackTexts : \E targetLang \in FallbackTargets :
       probe = [fn |-> "handleFallbackTranslation", text |-> text,
                targetLang |-> targetLang, done |-> FALSE, words |-> <<>>,
                translatedWords |-> <<>>, clientTranslated |-> <<>>,
                result |-> NoResult]
  /\ timeouts = <<>>
  /\ inactivityTimerRef = 0

\* The call returns.
FallbackApply ==
  /\ probe.fn = "handleFallbackTranslation"
  /\ ~probe.done
  /\ probe' = [probe EXCEPT
       !.done = TRUE,
       !.words = fallbackWords(probe.text),
       !.translatedWords = translatedWords(probe.text, probe.targetLang),
       !.clientTranslated = clientSideFallback(probe.text, probe.targetLang),
       !.result = handleFallbackTranslation(probe.text, probe.targetLang)]
  /\ UNCHANGED <<sessionVars, sanIn, sanOut, invocation, event, utterances,
                 hasSynthesis, mounted, timeouts, inactivityTimerRef>>

NextFallback == FallbackApply

SpecFallback == InitFallback /\ [][NextFallback]_vars

----------------------------------------------------------------------------
(* The language harness: detectInputLanguage (lines 245-248) called with   *)
(* a tag made of a base and at most MaxSubtags subtags.                    *)

MaxSubtags == 2

\* Bases of the table, in upper case, of no table, empty, and names of
\* properties every object inherits.
TagBases ==
  { <<"e","n">>, <<"e","s">>, <<"f","r">>, <<"r","u">>, <<"a","r">>, <<"z","h">>, <<"E","N">>, <<"x","x">>, <<>>,
    <<"c","o","n","s","t","r","u","c","t","o","r">>, <<"t","o","S","t","r","i","n","g">> }

Subtags == { <<"E","S">>, <<"Y","Y">>, <<"L","a","t","n">> }

RECURSIVE TagsOf(_)
TagsOf(n) ==
  IF n = 0 THEN TagBases
  ELSE { t \o <<"-">> \o sub : t \in TagsOf(n - 1), sub \in Subtags }

HarnessLocales == UNION { TagsOf(n) : n \in 0..MaxSubtags }

InitDetect ==
  /\ InitDefaults
  /\ sanIn = <<>>
  /\ sanOut = <<>>
  /\ invocation = NoCall
  /\ event = <<>>
  /\ utterances = <<>>
  /\ hasSynthesis = TRUE
  /\ mounted = TRUE
  /\ \E tag \in HarnessLocales :
       probe = [fn |-> "detectInputLanguage", recognitionLang |-> tag,
                done |-> FALSE, result |-> Undefined]
  /\ timeouts = <<>>
  /\ inactivityTimerRef = 0

\* The call returns.
DetectApply ==
  /\ probe.fn = "detectInputLanguage"
  /\ ~probe.done
  /\ probe' = [probe EXCEPT
       !.done = TRUE,
       !.result = detectInputLanguage(probe.recognitionLang)]
  /\ UNCHANGED <<sessionVars, sanIn, sanOut, invocation, event, utterances,
                 hasSynthesis, mounted, timeouts, inactivityTimerRef>>

NextDetect == DetectApply

SpecDetect == InitDetect /\ [][NextDetect]_vars

----------------------------------------------------------------------------
(* The result harness on utterances that name symptoms: one result event,  *)
(* under any of the languages of the result harness and every answer of    *)
(* the network.                                                            *)

ScenarioBatches ==
  { << Entry(TRUE, <<"I"," ","h","a","v","e"," ","a"," ","h","e","a","d","a","c","h","e"," ","a","n","d"," ","f","e","v","e","r">>) >>,
    << Entry(TRUE, <<"I"," ","h","a","v","e"," ","a"," ","h","e","a","d","a","c","h","e">>), Entry(TRUE, <<"a","n","d"," ","f","e","v","e","r">>) >>,
    << Entry(TRUE, <<"h","e","a","d","a","c","h","e">>) >>,
    << Entry(TRUE, <<"I"," ","h","a","v","e"," ","p","a","i","n">>) >> }

NextScenario ==
  \/ \E batch \in ScenarioBatches : ResultEvent(batch)
  \/ \E response \in Responses : ResultFetchSettles(response)
  \/ \E data \in Payloads : ResultJsonSettles(data)

SpecScenario == InitResult /\ [][NextScenario]_vars

----------------------------------------------------------------------------
(* The timeouts behind the inactivity timer (lines 204-238): each call of  *)
(* setTimeout creates a timeout, "pending" until its delay has passed,     *)
(* then "due" until its callback runs ("fired"), unless clearTimeout made  *)
(* it "cleared" first.  inactivityTimerRef holds the last one created.     *)

MaxTimeouts == 5

\* clearTimeout(id): a timeout that has fired or was cleared is left alone.
clearTimeout(ts, id) ==
  IF id # 0 /\ ts[id].state \in {"pending", "due"}
  THEN [ts EXCEPT ![id].state = "cleared"] ELSE ts

\* resetTimer starting a timeout without clearing the one held.
resetTimerKeeping(ts, held) == Append(ts, [state |-> "pending"])

\* Lines 206-219: resetTimer, on the timeouts ts with held in
\* inactivityTimerRef.
resetTimer(ts, held) == Append(clearTimeout(ts, held), [state |-> "pending"])

\* The effect runs again after a render: its cleanup (230-232) clears the
\* timeout held, then resetTimer() (227) starts one.
EffectRuns(ts) ==
  /\ Len(ts) < MaxTimeouts
  /\ timeouts' = resetTimer(clearTimeout(ts, inactivityTimerRef),
                            inactivityTimerRef)
  /\ inactivityTimerRef' = Len(ts) + 1
  /\ timer' = "pending"

\* Lines 221-225: a mousedown, keypress, scroll or touchstart event.
Activity ==
  /\ Len(timeouts) < MaxTimeouts
  /\ timeouts' = resetTimer(timeouts, inactivityTimerRef)
  /\ inactivityTimerRef' = Len(timeouts) + 1
  /\ timer' = "pending"
  /\ emitted' = <<>>
  /\ lastOp' = "resetTimer"
  /\ UNCHANGED <<isListening, transcript, translatedText, recognitionRef,
                 inputLanguage, outputLanguage, streams, calls, dispatched,
                 hasRecognition, sanIn, sanOut, invocation, event, utterances,
                 hasSynthesis, mounted, probe>>

\* Lines 541-545, with the render that follows.
ClearTextRenders ==
  /\ transcript' = <<>>
  /\ translatedText' = <<>>
  /\ emitted' = << Note("Text cleared", "info") >>
  /\ lastOp' = "clearText"
  /\ EffectRuns(timeouts)
  /\ UNCHANGED <<isListening, recognitionRef, inputLanguage, outputLanguage,
                 streams, calls, dispatched, hasRecognition, sanIn, sanOut,
                 invocation, event, utterances, hasSynthesis, mounted, probe>>

\* The delay of timeout id has passed; that of a timeout created before it
\* has passed before.
Delay(id) ==
  /\ timeouts[id].state = "pending"
  /\ \A k \in 1..(id - 1) : timeouts[k].state # "pending"
  /\ timeouts' = [timeouts EXCEPT ![id].state = "due"]
  /\ timer' = IF id = inactivityTimerRef THEN "due" ELSE timer
  /\ UNCHANGED <<isListening, transcript, translatedText, recognitionRef,
                 inputLanguage, outputLanguage, streams, calls, dispatched,
                 emitted, lastOp, hasRecognition, sanIn, sanOut, invocation,
                 event, utterances, hasSynthesis, mounted, probe,
                 inactivityTimerRef>>

\* Lines 212-218: the callback of timeout id runs; if it purged, the
\* component renders and the effect runs again.
TimeoutRuns(id) ==
  /\ timeouts[id].state = "due"
  /\ lastOp' = "timeout"
  /\ timeoutCallback
  /\ UNCHANGED <<isListening, recognitionRef, inputLanguage, outputLanguage,
                 streams, calls, dispatched, hasRecognition, sanIn, sanOut,
                 invocation, event, utterances, hasSynthesis, mounted, probe>>
  /\ IF Rendered
     THEN EffectRuns([timeouts EXCEPT ![id].state = "fired"])
     ELSE /\ timeouts' = [timeouts EXCEPT ![id].state = "fired"]
          /\ timer' = IF id = inactivityTimerRef THEN "none" ELSE timer
          /\ UNCHANGED inactivityTimerRef

\* The texts a session has left, the effect having run at mount.
InitTimer ==
  /\ isListening = FALSE
  /\ \E texts \in LeftTexts :
       /\ transcript = texts[1]
       /\ translatedText = texts[2]
  /\ recognitionRef = 0
  /\ inputLanguage = <<"e","n","-","U","S">>
  /\ outputLanguage = <<"e","s">>
  /\ streams = <<>>
  /\ calls = <<>>
  /\ dispatched = 0
  /\ timer = "pending"
  /\ emitted = <<>>
  /\ lastOp = "mount"
  /\ hasRecognition = TRUE
  /\ sanIn = <<>>
  /\ sanOut = <<>>
  /\ invocation = NoCall
  /\ event = <<>>
  /\ utterances = <<>>
  /\ hasSynthesis = TRUE
  /\ mounted = TRUE
  /\ probe = NoProbe
  /\ timeouts = << [state |-> "pending"] >>
  /\ inactivityTimerRef = 1

NextTimer ==
  \/ Activity
  \/ ClearTextRenders
  \/ \E id \in DOMAIN timeouts : Delay(id)
  \/ \E id \in DOMAIN timeouts : TimeoutRuns(id)

SpecTimer == InitTimer /\ [][NextTimer]_vars

----------------------------------------------------------------------------
(* Start pressed more than once.  isListening becomes true at onstart      *)
(* (line 461), so between start() and onstart the Start button is still    *)
(* enabled (line 21 of ControlButtons.jsx).  Nothing in the hook tells the *)
(* engine to end an earlier stream when a new one is started; whether it   *)
(* ends it (an error event of the earlier stream) or runs both is the      *)
(* engine's choice.                                                        *)

MaxStarts == 2

\* Lines 440-525: the Start button, for at most MaxStarts streams.
StartPressed ==
  /\ ~isListening
  /\ lastOp' = "startListening"
  /\ IF ~hasRecognition
     THEN /\ emitted' = << Note("Speech recognition is not supported in this browser. Please use Chrome or Edge.", "error") >>
          /\ UNCHANGED <<streams, recognitionRef>>
     ELSE /\ Len(streams) < MaxStarts
          /\ \E throws \in BOOLEAN :
               IF throws
               THEN /\ emitted' = << Note("Error starting speech recognition", "error") >>
                    /\ UNCHANGED <<streams, recognitionRef>>
               ELSE /\ emitted' = <<>>
                    /\ streams' = Append(streams,
                         Stream("starting", inputLanguage, outputLanguage))
                    /\ recognitionRef' = Len(streams) + 1
  /\ UNCHANGED <<isListening, transcript, translatedText, inputLanguage,
                 outputLanguage, calls, dispatched, hasRecognition, harnessVars>>
  /\ EffectTimer

NextStarts ==
  \/ StartPressed
  \/ \E s \in DOMAIN streams : OnStart(s)
  \/ \E s \in DOMAIN streams : \E kind \in ErrorKinds : OnError(s, kind)
  \/ \E s \in DOMAIN streams : OnEnd(s)
  \/ StopListening
  \/ ResetTimer
  \/ TimerFires
  \/ Elapse

SpecStarts == InitEngine /\ [][NextStarts]_vars

----------------------------------------------------------------------------
(* The session with the two language selectors (App.jsx, lines 15-16 and   *)
(* 71-72; LanguageSelector.jsx, lines 16 and 35) changed at any time.  The *)
(* handlers of a stream are closures of the render in which Start was      *)
(* pressed.                                                                *)

\* onInputLanguageChange: setInputLanguage(e.target.value), and App renders.
SetInputLanguage(tag) ==
  /\ tag # inputLanguage
  /\ inputLanguage' = tag
  /\ emitted' = <<>>
  /\ lastOp' = "setInputLanguage"
  /\ UNCHANGED <<isListening, transcript, translatedText, recognitionRef,
                 outputLanguage, streams, calls, dispatched, hasRecognition,
                 harnessVars>>
  /\ EffectTimer

\* onOutputLanguageChange: setOutputLanguage(e.target.value), and App renders.
SetOutputLanguage(code) ==
  /\ code # outputLanguage
  /\ outputLanguage' = code
  /\ emitted' = <<>>
  /\ lastOp' = "setOutputLanguage"
  /\ UNCHANGED <<isListening, transcript, translatedText, recognitionRef,
                 inputLanguage, streams, calls, dispatched, hasRecognition,
                 harnessVars>>
  /\ EffectTimer

NextLanguages ==
  \/ StartListening
  \/ \E s \in DOMAIN streams : OnStart(s)
  \/ \E s \in DOMAIN streams : \E batch \in Batches : OnResult(s, batch)
  \/ \E c \in DOMAIN calls : \E response \in Responses : FetchSettles(c, response)
  \/ \E c \in DOMAIN calls : \E data \in Payloads : JsonSettles(c, data)
  \/ \E tag \in InputTags : SetInputLanguage(tag)
  \/ \E code \in OutputCodes : SetOutputLanguage(code)

SpecLanguages == Init /\ [][NextLanguages]_vars
----------------------------------------------------------------------------
(* Properties of translateWithMyMemory, over the translate harness.        *)

\* (sourceLang, targetLang) is a pair of the table of lines 137-148.
InTable(sourceLang, targetLang) ==
  \E pair \in supportedLanguagePairs :
    /\ pair[1] = sourceLang
    /\ \E k \in DOMAIN pair[2].v : pair[2].v[k] = targetLang

Invoked == invocation.pc # "none"
Settled == invocation.pc = "done"
Fallbacks == {"Dictionary", "UntranslatedNotice"}

\* The payload is one the function accepts: parsed, responseStatus 200 and
\* a responseData.translatedText that is there.
GoodPayload(data) ==
  /\ data.parsed
  /\ ~data.isNull
  /\ data.responseStatus = 200
  /\ data.hasData
  /\ data.translatedText.t # "undefined"
  /\ data.translatedText # Str(<<>>)

\* C1: whatever the text, the two language codes and the answer of the
\* network (rejected fetch, response that is not ok, body that does not
\* parse or is null, responseStatus other than 200, success), the
\* invocation never throws to its caller: once the network has answered with
\* a failure or with a payload it has returned a result with a text, and
\* the caller never shows "Translation error occurred".
C1_NeverRaises ==
  Invoked =>
    /\ invocation.pc \in {"fetch", "json", "done"}
    /\ invocation.response \in {"reject", "notok"} => Settled
    /\ invocation.data # NoData => Settled
    /\ Settled => invocation.result.provenance
                    \in {"Identity", "Remote"} \cup Fallbacks
    /\ \A k \in DOMAIN emitted :
         emitted[k].message # "Translation error occurred"

\* A body that did not parse ended in a fallback result.
C1_Witness ==
  /\ Settled
  /\ invocation.response = "ok"
  /\ invocation.data = Payload(FALSE, FALSE, -1, FALSE, Undefined)
  /\ invocation.data # NoData
  /\ invocation.result.provenance \in Fallbacks
  /\ translatedText # <<>>

\* C2: translate(t, L, L) returns sanitize(t) from the same-language return
\* (Identity), with no fetch, without having asked isLanguagePairSupported
\* and without the notification of a fallback.
C2_SameLanguage ==
  Invoked /\ invocation.sourceLang = invocation.targetLang =>
    /\ Settled
    /\ invocation.result
         = Result(sanitizeInput(Str(invocation.text)), "Identity")
    /\ invocation.fetches = 0
    /\ ~invocation.pairChecked
    /\ invocation.notes = <<>>
    /\ translatedText = << <<" ">> \o sanitizeInput(Str(invocation.text)) >>

\* A text that sanitizing changes, translated into its own language, for a
\* code that no table knows.
C2_Witness ==
  /\ Settled
  /\ invocation.sourceLang = <<"x","x">>
  /\ invocation.targetLang = <<"x","x">>
  /\ invocation.text = <<"<","b",">","H","e","l","p","<","/","b",">"," ","m","e">>
  /\ invocation.result.text = <<"H","e","l","p"," ","m","e">>

\* C3: for two different codes that are not a pair of the table, the source
\* being a key of it or not, translate makes no fetch and returns a
\* Dictionary or an UntranslatedNotice result.
C3_UnsupportedPair ==
  /\ Invoked
  /\ invocation.sourceLang # invocation.targetLang
  /\ ~InTable(invocation.sourceLang, invocation.targetLang)
  => /\ Settled
     /\ invocation.fetches = 0
     /\ invocation.response = "none"
     /\ invocation.result.provenance \in Fallbacks

\* A source that is not a key of the table, answered from the dictionary.
C3_Witness ==
  /\ Settled
  /\ invocation.sourceLang = <<"x","x">>
  /\ invocation.targetLang = <<"e","s">>
  /\ invocation.fetches = 0
  /\ invocation.result = Result(<<"f","i","e","b","r","e">>, "Dictionary")

\* C4: a result is Remote only if the response was ok and its payload
\* parsed with responseStatus 200 and a responseData.translatedText; a
\* supported pair with any other answer gets a Dictionary or an
\* UntranslatedNotice result.
C4_RemoteOnlyOnSuccess ==
  Settled =>
    /\ invocation.result.provenance = "Remote" =>
         /\ invocation.response = "ok"
         /\ GoodPayload(invocation.data)
    /\ invocation.fetches = 1
         /\ ~(invocation.response = "ok" /\ GoodPayload(invocation.data))
       => invocation.result.provenance \in Fallbacks

\* responseStatus 403 with a translatedText: a fallback result.
C4_Witness ==
  /\ Settled
  /\ invocation.response = "ok"
  /\ invocation.data.responseStatus = 403
  /\ invocation.data.translatedText # Undefined
  /\ invocation.result.provenance \in Fallbacks

\* C5: an invocation makes at most one request: one if the codes differ and
\* are a pair of the table, none otherwise; a request that failed is not
\* made again, and the invocation has then returned a fallback result.
C5_AtMostOneRequest ==
  Invoked =>
    /\ invocation.fetches
         = IF /\ invocation.sourceLang # invocation.targetLang
              /\ InTable(invocation.sourceLang, invocation.targetLang)
           THEN 1 ELSE 0
    /\ invocation.response \in {"reject", "notok"} =>
         /\ Settled
         /\ invocation.result.provenance \in Fallbacks

\* The one request was rejected and the invocation returned a fallback.
C5_Witness ==
  /\ Settled
  /\ invocation.response = "reject"
  /\ invocation.fetches = 1
  /\ invocation.result.provenance = "UntranslatedNotice"

----------------------------------------------------------------------------
(* Properties of the session.                                              *)

PrivacyNote == Note("Patient data cleared for security", "info")

\* C6: when Stop is pressed while a translation is pending, isListening is
\* false at once and the pending call stays in flight; a call that settles
\* while the session is not listening still appends its text to
\* translatedText.
C6_StopKeepsPending ==
  [][ /\ StopListening /\ calls # <<>> =>
           /\ ~isListening'
           /\ calls' = calls
           /\ translatedText' = translatedText
      /\ ~isListening /\ Len(calls') < Len(calls) =>
           /\ Len(translatedText') = Len(translatedText) + 1
           /\ SubSeq(translatedText', 1, Len(translatedText)) = translatedText
           /\ Head(translatedText'[Len(translatedText')]) = " "
    ]_vars

\* Stop has just been pressed with a translation pending.
C6_Witness ==
  /\ lastOp = "stopListening"
  /\ ~isListening
  /\ calls # <<>>
  /\ \E s \in DOMAIN streams : streams[s].phase = "stopping"

\* C7: once no translation is in flight, translatedText holds as many
\* segments as transcript.
C7_CountsConverge ==
  calls = <<>> => Len(translatedText) = Len(transcript)

\* C8: when the inactivity timeout fires with a transcript that is not
\* empty, transcript and translatedText become empty and the notification
\* is shown; when it fires with both empty, nothing is shown.
C8_PurgeAfterTimeout ==
  [][ TimerFires =>
        /\ TextOf(transcript) # <<>> =>
             /\ transcript' = <<>>
             /\ translatedText' = <<>>
             /\ emitted' = << PrivacyNote >>
        /\ TextOf(transcript) = <<>> /\ TextOf(translatedText) = <<>> =>
             emitted' = <<>>
    ]_vars

\* The timeout fired on a transcript whose translation was still pending.
C8_Witness ==
  /\ lastOp = "timeout"
  /\ emitted = << PrivacyNote >>
  /\ transcript = <<>>
  /\ translatedText = <<>>
  /\ calls # <<>>

\* C9: the callback of the timeout decides on what the two texts hold when
\* it runs: if either is not empty (translatedText alone included) both are
\* cleared and the one notification is shown; if both are empty nothing
\* changes, nothing is shown and no timeout is pending, until a handler
\* runs that starts one.
C9_DecidesOnCurrentTexts ==
  [][ /\ TimerFires =>
           IF TextOf(transcript) # <<>> \/ TextOf(translatedText) # <<>>
           THEN /\ transcript' = <<>>
                /\ translatedText' = <<>>
                /\ emitted' = << PrivacyNote >>
           ELSE /\ UNCHANGED <<transcript, translatedText>>
                /\ emitted' = <<>>
                /\ timer' = "none"
      /\ timer = "none" /\ timer' # "none" =>
           /\ timer' = "pending"
           /\ lastOp' # "timeout"
    ]_vars

\* The timeout fired on empty texts: nothing shown, no timeout pending.
C9_Witness ==
  /\ lastOp = "timeout"
  /\ emitted = <<>>
  /\ timer = "none"
  /\ transcript = <<>>
  /\ translatedText = <<>>

----------------------------------------------------------------------------
(* Properties of sanitizeInput, over the sanitize harness.                 *)

\* C10: sanitizeInput applied to its own result returns that result.
C10_Idempotent ==
  Len(sanOut) = 2 => sanOut[2] = sanOut[1]

\* pat occurs in s, in any letter case.
Occurs(s, pat) == \E i \in 1..Len(s) : matchAtCI(s, i, pat)

\* s holds a tag: a "<", then at least one character that is not ">", then
\* a ">".
HasTag(s) ==
  \E i \in 1..Len(s) : \E j \in 1..Len(s) :
    s[i] = "<" /\ s[j] = ">" /\ j > i + 1 /\ s[i + 1] # ">"

\* s holds a script block: "<script", and "</script>" after it.
HasScriptBlock(s) ==
  \E i \in 1..Len(s) : \E j \in 1..Len(s) :
    j > i /\ matchAtCI(s, i, <<"<","s","c","r","i","p","t">>) /\ matchAtCI(s, j, <<"<","/","s","c","r","i","p","t",">">>)

\* C11: what sanitizeInput returns holds no script block, no tag, no
\* "javascript:" and none of "onerror", "onload", "onclick", in any letter
\* case.
C11_OutputClean ==
  Len(sanOut) >= 1 =>
    /\ ~HasScriptBlock(sanOut[1])
    /\ ~HasTag(sanOut[1])
    /\ ~Occurs(sanOut[1], <<"j","a","v","a","s","c","r","i","p","t",":">>)
    /\ ~Occurs(sanOut[1], <<"o","n","e","r","r","o","r">>)
    /\ ~Occurs(sanOut[1], <<"o","n","l","o","a","d">>)
    /\ ~Occurs(sanOut[1], <<"o","n","c","l","i","c","k">>)

----------------------------------------------------------------------------
(* Properties of onresult, over the result harness.                        *)

\* The final entries of a result event, and their texts as onresult joins
\* them.
Finals(batch) == SelectSeq(batch, LAMBDA e : e.isFinal)

RawFinalText(batch) ==
  Flatten([k \in DOMAIN Finals(batch) |->
             Finals(batch)[k].transcript \o <<" ">>])

\* C12: the segment appended to transcript is enhanceMedicalTerms of the
\* sanitized raw text, that same segment is what is given to translate, and
\* the segment appended to translatedText is sanitizeInput of the text of
\* the payload, or the same-language or fallback text computed from the
\* sanitized text given.
C12_SanitizedAtBoundaries ==
  event # <<>> /\ Finals(event) # <<>> =>
    /\ transcript
         = << enhanceMedicalTerms(sanitizeInput(Str(RawFinalText(event)))) >>
    /\ invocation.text = transcript[1]
    /\ Settled =>
         translatedText
           = << <<" ">> \o
                (IF invocation.result.provenance = "Remote"
                 THEN sanitizeInput(invocation.data.translatedText)
                 ELSE IF invocation.result.provenance = "Identity"
                 THEN sanitizeInput(Str(invocation.text))
                 ELSE handleFallbackTranslation(
                        sanitizeInput(Str(invocation.text)),
                        invocation.targetLang).text) >>

\* Raw text with tags was committed without them, and a payload with tags
\* was stored without them.
C12_Witness ==
  /\ event = << Entry(TRUE, <<"<","b",">","f","e","v","e","r","<","/","b",">">>) >>
  /\ transcript = << <<"p","y","r","e","x","i","a">> >>
  /\ Settled
  /\ invocation.result.provenance = "Remote"
  /\ invocation.data.translatedText = Str(<<"<","b",">","f","i","e","b","r","e","<","/","b",">">>)
  /\ translatedText = << <<" ","f","i","e","b","r","e">> >>

\* C13: an event with no final entry changes neither text and makes no
\* invocation of translate; of an event with final and interim entries only
\* the text of the final ones is committed and given to translate.
C13_OnlyFinalCommitted ==
  event # <<>> =>
    IF Finals(event) = <<>>
    THEN /\ transcript = <<>>
         /\ translatedText = <<>>
         /\ invocation = NoCall
         /\ emitted = <<>>
    ELSE /\ transcript
              = << enhanceMedicalTerms(sanitizeInput(Str(RawFinalText(event)))) >>
         /\ invocation # NoCall
         /\ invocation.text = transcript[1]
         /\ invocation.targetLang = outputLanguage

\* An interim entry before a final one: only the final one was committed.
C13_Witness ==
  /\ event = << Entry(FALSE, <<"p","a","i","n">>), Entry(TRUE, <<"H","e","l","p"," ","m","e">>) >>
  /\ transcript = << <<"H","e","l","p"," ","m","e">> >>
  /\ invocation # NoCall
  /\ invocation.text = <<"H","e","l","p"," ","m","e">>

----------------------------------------------------------------------------
(* Properties of the recognition engine's events, over the session.        *)

Active(s) == streams[s].phase \in {"starting", "running"}

\* C14: Start without a recognition capability shows the error and changes
\* nothing else: isListening stays false, no stream is created or held, the
\* two texts are as they were.
C14_StartUnsupported ==
  [][ StartListening /\ ~hasRecognition =>
        /\ emitted' = << Note("Speech recognition is not supported in this browser. Please use Chrome or Edge.", "error") >>
        /\ ~isListening'
        /\ UNCHANGED <<streams, recognitionRef, transcript, translatedText>>
    ]_vars

\* Start was pressed without the capability.
C14_Witness ==
  /\ ~hasRecognition
  /\ lastOp = "startListening"
  /\ emitted # <<>>
  /\ emitted[1].type = "error"
  /\ streams = <<>>
  /\ recognitionRef = 0
  /\ ~isListening

\* C15: an error of the engine while listening leaves isListening false,
\* the stream that failed and the stream held not active, no stream held,
\* and shows one error: the microphone message for "not-allowed", the kind
\* of the error otherwise.
C15_ErrorEndsListening ==
  [][ \A s \in DOMAIN streams : \A kind \in ErrorKinds :
        OnError(s, kind) /\ isListening =>
          /\ ~isListening'
          /\ recognitionRef' = 0
          /\ streams'[s].phase \notin {"starting", "running"}
          /\ recognitionRef # 0 =>
               streams'[recognitionRef].phase \notin {"starting", "running"}
          /\ emitted'
               = << IF kind = "not-allowed"
                    THEN Note("Microphone access is not allowed. Please enable microphone permissions.", "error")
                    ELSE NoteArgs("Error: ${event.error}", "error", <<kind>>) >>
    ]_vars

\* The engine failed with an error other than "not-allowed" after something
\* had been recognised.
C15_Witness ==
  /\ lastOp = "onerror"
  /\ emitted = << NoteArgs("Error: ${event.error}", "error", <<"network">>) >>
  /\ transcript # <<>>
  /\ ~isListening
  /\ recognitionRef = 0
  /\ \E s \in DOMAIN streams : streams[s].phase = "errored"

\* C16: the step that follows Stop commits nothing to transcript and makes
\* no invocation of translate.
C16_NothingCommittedAfterStop ==
  [][ lastOp = "stopListening" =>
        /\ Len(transcript') <= Len(transcript)
        /\ dispatched' = dispatched
    ]_vars

----------------------------------------------------------------------------
(* Properties of stopListening called while idle.                          *)

\* isListening is false and no stream is starting or running.
Idle == ~isListening /\ \A s \in DOMAIN streams : ~Active(s)

\* C17, as claimed: stopListening while idle changes no state, the stream
\* held included, and shows nothing.
C17_StopIdleChangesNothing ==
  [][ StopIdle /\ Idle =>
        /\ UNCHANGED <<isListening, transcript, translatedText,
                       recognitionRef, streams, timer>>
        /\ emitted' = <<>>
    ]_vars

\* C17, amended: stopListening while idle changes neither isListening, the
\* two texts, any stream nor the timeout and shows nothing; a stream still
\* held (one that ended by itself) is released.
C17_StopIdleReleasesOnly ==
  [][ StopIdle /\ Idle =>
        /\ UNCHANGED <<isListening, transcript, translatedText, streams,
                       timer>>
        /\ emitted' = <<>>
        /\ recognitionRef' = 0
    ]_vars

\* stopListening has just been called on a session whose stream had ended
\* by itself and was still held.
C17_Witness ==
  /\ lastOp = "stopListening"
  /\ ~isListening
  /\ recognitionRef = 0
  /\ timer = "due"
  /\ Len(streams) = 1
  /\ streams[1].phase = "ended"

----------------------------------------------------------------------------
(* Properties of speakTranslation, over the speech output slice.           *)

Speaking == { u \in DOMAIN utterances : utterances[u].phase = "speaking" }

\* C18: at most one utterance is being spoken or queued; a Speak that
\* submits an utterance has interrupted every earlier one, and the one it
\* submitted is the only one speaking.
C18_OneUtterance ==
  [][ /\ Cardinality(Speaking') <= 1
      /\ SpeakTranslation /\ utterances' # utterances =>
           /\ Len(utterances') = Len(utterances) + 1
           /\ \A u \in DOMAIN utterances :
                utterances'[u].phase = "interrupted"
           /\ utterances'[Len(utterances')]
                = Utterance(TextOf(translatedText), outputLanguage, "speaking")
    ]_vars

\* Speak pressed while an utterance was being spoken: the first was
\* interrupted, the second speaks.
C18_Witness ==
  /\ lastOp = "speakTranslation"
  /\ Len(utterances) = 2
  /\ utterances[1].phase = "interrupted"
  /\ utterances[2].phase = "speaking"

\* C19: Speak on an empty text does nothing: no utterance is submitted,
\* none is interrupted, nothing is shown, with or without the capability;
\* Speak on a text without the capability shows the error and submits
\* nothing.
C19_SpeakGuards ==
  [][ SpeakTranslation =>
        /\ TextOf(translatedText) = <<>> =>
             /\ UNCHANGED utterances
             /\ emitted' = <<>>
        /\ TextOf(translatedText) # <<>> /\ ~hasSynthesis =>
             /\ UNCHANGED utterances
             /\ emitted' = << Note("Speech synthesis is not supported in this browser.", "error") >>
    ]_vars

\* Speak pressed on an empty text while an utterance was being spoken: it
\* still is.
C19_Witness ==
  /\ lastOp = "speakTranslation"
  /\ translatedText = <<>>
  /\ emitted = <<>>
  /\ Len(utterances) = 1
  /\ utterances[1].phase = "speaking"

----------------------------------------------------------------------------
(* Teardown at unmount.                                                    *)

\* C20: once the hosting view has unmounted, no recognition stream is
\* starting or running, no timeout is scheduled, and no recognition or
\* timer callback has run since.
C20_UnmountTearsDown ==
  ~mounted =>
    /\ \A s \in DOMAIN streams : ~Active(s)
    /\ timer = "none"
    /\ lastOp = "unmount"

\* C20, the half the cleanup of lines 229-237 does keep: after the unmount
\* no timeout is scheduled and the timeout callback never runs.
C20_TimerTornDown ==
  /\ ~mounted => timer = "none"
  /\ [][~mounted => ~TimerFires /\ ~ResetTimer /\ ~Elapse]_vars

----------------------------------------------------------------------------
(* The failure paths of the remote call, over the translate harness.       *)

\* The remote call of the invocation failed: the fetch was rejected, the
\* response was not ok, or its body was not a payload the function accepts.
RemoteFailed ==
  /\ Invoked
  /\ \/ invocation.response \in {"reject", "notok"}
     \/ /\ invocation.response = "ok"
        /\ invocation.data # NoData
        /\ ~GoodPayload(invocation.data)

\* C21: when the remote call failed, the invocation has returned a fallback
\* result, that result is what was appended to translatedText, and what was
\* shown is the one warning of the catch block: nothing of severity error.
C21_FailureAbsorbed ==
  RemoteFailed =>
    /\ Settled
    /\ invocation.result.provenance \in Fallbacks
    /\ translatedText = << <<" ">> \o invocation.result.text >>
    /\ emitted = << Note("Translation service unavailable. Using fallback.",
                         "warning") >>
    /\ \A k \in DOMAIN emitted : emitted[k].type # "error"

\* A response that was not ok, absorbed by the dictionary.
C21_Witness ==
  /\ RemoteFailed
  /\ invocation.response = "notok"
  /\ invocation.text = <<"f","e","v","e","r">>
  /\ invocation.targetLang = <<"e","s">>
  /\ translatedText = << <<" ","f","i","e","b","r","e">> >>
  /\ emitted # <<>>

----------------------------------------------------------------------------
(* The order of the two texts, over several results with their             *)
(* translations in flight.                                                 *)

\* C22: a final result is appended to transcript in the step of its result
\* event, last, while its translation is still in flight and translatedText
\* is as it was; a call that settles, whichever of the calls in flight it
\* is, appends its result last to translatedText and leaves transcript
\* alone.
C22_AppendOrder ==
  [][ /\ \A batch \in Batches :
           ResultArrives(batch) /\ finalTranscriptOf(batch) # <<>> =>
             /\ transcript' = Append(transcript,
                  recognised[batch, inputLanguage, outputLanguage].enhancedTranscript)
             /\ translatedText' = translatedText
             /\ Len(calls') = Len(calls) + 1
             /\ calls'[Len(calls')].text = transcript'[Len(transcript')]
      /\ \A c \in DOMAIN calls : \A response \in Responses :
           FetchSettles(c, response) =>
             /\ transcript' = transcript
             /\ translatedText'
                  = IF response = "ok" THEN translatedText
                    ELSE Append(translatedText,
                           <<" ">> \o onResponse[calls[c], response].result.text)
      /\ \A c \in DOMAIN calls : \A data \in Payloads :
           JsonSettles(c, data) =>
             /\ transcript' = transcript
             /\ translatedText'
                  = Append(translatedText,
                           <<" ">> \o onJson[calls[c], data].result.text)
    ]_vars

\* Two utterances whose translations settled in the other order.
C22_Witness ==
  /\ transcript = << <<"p","y","r","e","x","i","a">>, <<"H","e","l","p"," ","m","e">> >>
  /\ translatedText
       = << <<" ","a","y","u","d","a"," ","m","e">>, <<" ","p","y","r","e","x","i","a"," ","[","W","o","u","l","d"," ","b","e"," ","t","r","a","n","s","l","a","t","e","d"," ","t","o"," ","S","p","a","n","i","s","h","]">> >>
  /\ calls = <<>>

----------------------------------------------------------------------------
(* Properties of the fallback chain, over the fallback harness.            *)

FallbackDone == probe.fn = "handleFallbackTranslation" /\ probe.done

\* The vocabulary of targetLang has word, stripped of its punctuation, as
\* a key.
InVocabulary(word, targetLang) ==
  /\ HasOwn(commonTranslations, targetLang)
  /\ HasOwn(Lookup(commonTranslations, targetLang), cleanPunctuation(word))

DisplayName(targetLang) ==
  IF HasOwn(langNames, targetLang) THEN Lookup(langNames, targetLang).v
  ELSE targetLang

\* C23: when no word of the text is in the vocabulary of the target, a
\* target without a vocabulary included, the result is the
\* UntranslatedNotice '<text> [Would be translated to <name>]' with the
\* text in its own case and the display name or, without one, the code; a
\* Dictionary result needs a word that is in the vocabulary.
C23_NoticeUnlessMatched ==
  FallbackDone =>
    LET matched == \E k \in DOMAIN probe.words :
                     InVocabulary(probe.words[k], probe.targetLang)
    IN  /\ ~matched =>
             probe.result
               = Result(sanitizeInput(Str(probe.text))
                          \o <<" ","[","W","o","u","l","d"," ","b","e"," ","t","r","a","n","s","l","a","t","e","d"," ","t","o"," ">>
                          \o DisplayName(probe.targetLang) \o <<"]">>,
                        "UntranslatedNotice")
        /\ probe.result.provenance = "Dictionary" => matched

\* C24: every word that is not in the vocabulary of the target comes out
\* of the dictionary as it went in, in lower case, and the output is the
\* words that came out, as many as went in, joined by one space.
C24_OnlyVocabularyChanges ==
  FallbackDone =>
    /\ Len(probe.translatedWords) = Len(probe.words)
    /\ probe.clientTranslated = joinSpace(probe.translatedWords)
    /\ \A k \in DOMAIN probe.words :
         ~InVocabulary(probe.words[k], probe.targetLang) =>
           probe.translatedWords[k] = probe.words[k]

----------------------------------------------------------------------------
(* Properties of detectInputLanguage, over the language harness.           *)

DetectDone == probe.fn = "detectInputLanguage" /\ probe.done

\* The part of tag before its first "-", all of it if it has none.
BaseOf(tag) ==
  LET dashes == { i \in DOMAIN tag : tag[i] = "-" }
  IN  IF dashes = {} THEN tag
      ELSE SubSeq(tag, 1, (CHOOSE i \in dashes : \A j \in dashes : i <= j) - 1)

\* The codes the table maps to.
TableCodes == { p[2] : p \in languageCodeMap }

\* C25: for every tag the function returns the code the table gives for
\* the part before the first "-" when that part is a key of the table, and
\* "en" otherwise; what it returns is always a code of the table.
C25_ResolveBase ==
  DetectDone =>
    /\ probe.result
         = IF HasOwn(languageCodeMap, BaseOf(probe.recognitionLang))
           THEN Lookup(languageCodeMap, BaseOf(probe.recognitionLang))
           ELSE Str(<<"e","n">>)
    /\ probe.result \in TableCodes
    /\ probe.recognitionLang = <<"e","s","-","E","S">> => probe.result = Str(<<"e","s">>)
    /\ probe.recognitionLang = <<"x","x","-","Y","Y">> => probe.result = Str(<<"e","n">>)

----------------------------------------------------------------------------
(* The scenario of the symptoms, over the result harness.                  *)

\* The utterance of the scenario was delivered as one final entry, English
\* is recognised for a Spanish reader.
ScenarioDelivered ==
  /\ event = << Entry(TRUE, <<"I"," ","h","a","v","e"," ","a"," ","h","e","a","d","a","c","h","e"," ","a","n","d"," ","f","e","v","e","r">>) >>
  /\ inputLanguage = <<"e","n","-","U","S">>
  /\ outputLanguage = <<"e","s">>

\* C26: for the final utterance 'I have a headache and fever', from English
\* to Spanish, transcript receives 'I have a cephalalgia and pyrexia' with
\* the event, the translation is asked for that enhanced text from en to
\* es, and once the request has been rejected translatedText receives,
\* after its separating space, the enhanced text followed by
\* ' [Would be translated to Spanish]', an UntranslatedNotice.
C26_HeadacheAndFever ==
  ScenarioDelivered =>
    /\ transcript = << <<"I"," ","h","a","v","e"," ","a"," ","c","e","p","h","a","l","a","l","g","i","a"," ","a","n","d"," ","p","y","r","e","x","i","a">> >>
    /\ invocation.text = <<"I"," ","h","a","v","e"," ","a"," ","c","e","p","h","a","l","a","l","g","i","a"," ","a","n","d"," ","p","y","r","e","x","i","a">>
    /\ invocation.sourceLang = <<"e","n">>
    /\ invocation.targetLang = <<"e","s">>
    /\ invocation.pc = "fetch" => translatedText = <<>>
    /\ invocation.response = "reject" =>
         /\ invocation.result.provenance = "UntranslatedNotice"
         /\ translatedText
              = << <<" ","I"," ","h","a","v","e"," ","a"," ","c","e","p","h","a","l","a","l","g","i","a"," ","a","n","d"," ","p","y","r","e","x","i","a"," ","[","W","o","u","l","d"," ","b","e"," ","t","r","a","n","s","l","a","t","e","d"," ","t","o"," ","S","p","a","n","i","s","h","]">> >>

\* The request of the scenario was rejected.
C26_Witness ==
  /\ ScenarioDelivered
  /\ invocation.response = "reject"
  /\ invocation.pc = "done"
  /\ translatedText # <<>>

----------------------------------------------------------------------------
(* The inactivity timeout while speech arrives, over the session.          *)

\* The step commits an utterance: a result event whose final text is
\* appended to transcript.
Commits ==
  /\ lastOp' = "onresult"
  /\ Len(transcript') = Len(transcript) + 1

\* The step resolves a translation: its text is appended to translatedText.
Resolves == Len(translatedText') = Len(translatedText) + 1

\* The step purges: texts that held something are emptied and the privacy
\* notification is shown.
Purges ==
  /\ TextOf(transcript) # <<>> \/ TextOf(translatedText) # <<>>
  /\ transcript' = <<>>
  /\ translatedText' = <<>>
  /\ emitted' = << PrivacyNote >>

\* C27: every utterance committed and every translation resolved starts
\* the timeout again, with no pointer, key, scroll or touch event; the
\* purge runs only on a timeout that has become due, and a timeout becomes
\* due only by the whole delay passing with no handler running.  So no
\* purge comes between two commits or resolutions less than the delay
\* apart.
C27_SpeechKeepsAlive ==
  [][ /\ Commits \/ Resolves => timer' = "pending" /\ lastOp' # "resetTimer"
      /\ Purges => timer = "due" /\ lastOp' = "timeout"
      /\ timer # "due" /\ timer' = "due" =>
           /\ timer = "pending"
           /\ UNCHANGED <<transcript, translatedText, lastOp, emitted, calls>>
    ]_vars

\* A translation has just resolved while listening: the timeout is running
\* anew.
C27_Witness ==
  /\ isListening
  /\ lastOp \in {"fetch", "json"}
  /\ Len(translatedText) = 1
  /\ Len(transcript) = 1
  /\ timer = "pending"

----------------------------------------------------------------------------
(* The timeouts of the inactivity timer, over the timer slice.             *)

\* The timeouts whose callback can still run.
Live == { id \in DOMAIN timeouts : timeouts[id].state \in {"pending", "due"} }

\* C28: at most one timeout can still run, and it is the one created last,
\* the one inactivityTimerRef holds: every activity and every run of the
\* effect has cleared the one before.  The callback that runs is therefore
\* that of the timeout created by the most recent activity or render, whose
\* whole delay has passed.
C28_OneDeadline ==
  /\ [](/\ Cardinality(Live) <= 1
        /\ Live \subseteq {Len(timeouts)}
        /\ inactivityTimerRef = Len(timeouts)
        /\ timer = IF Live = {} THEN "none"
                   ELSE timeouts[Len(timeouts)].state)
  /\ [][\A id \in DOMAIN timeouts :
          TimeoutRuns(id) => id = Len(timeouts) /\ timeouts[id].state = "due"
       ]_vars

\* An activity cleared the first timeout; the second ran its delay, purged,
\* and the render started the third.
C28_Witness ==
  /\ Len(timeouts) = 3
  /\ timeouts[1].state = "cleared"
  /\ timeouts[2].state = "fired"
  /\ timeouts[3].state = "pending"
  /\ lastOp = "timeout"
  /\ emitted = << PrivacyNote >>

----------------------------------------------------------------------------
(* Clearing with a translation in flight, over the session.                *)

\* The utterance of call c is no longer in transcript: Clear or the purge
\* has removed it since the call was made.
ClearedSince(c) ==
  \A k \in DOMAIN transcript : transcript[k] # calls[c].text

\* C29: a call whose utterance has been cleared from transcript appends
\* nothing to translatedText when it settles.
C29_NothingReturnsAfterClear ==
  [][ \A c \in DOMAIN calls :
        /\ ClearedSince(c)
        /\ \/ \E response \in Responses : FetchSettles(c, response)
           \/ \E data \in Payloads : JsonSettles(c, data)
        => translatedText' = translatedText
    ]_vars

----------------------------------------------------------------------------
(* One stream at a time, over the session with Start pressed again.        *)

\* C30: at most one stream is starting or running, and while isListening
\* is true that stream is the one recognitionRef holds, the one a Stop
\* would stop.
C30_OneActiveStream ==
  /\ Cardinality({ s \in DOMAIN streams : Active(s) }) <= 1
  /\ isListening =>
       /\ recognitionRef # 0
       /\ \A s \in DOMAIN streams : Active(s) => s = recognitionRef

----------------------------------------------------------------------------
(* The languages of a stream, over the session with the selectors.         *)

\* C31: a stream keeps the two languages selected when Start was pressed,
\* whatever is selected afterwards, and every final result of the stream is
\* translated from the code of that input language into that output
\* language: the call made has them as its source and target, and a call
\* that returns at once returns what those two languages give.
C31_LanguagesOfStart ==
  [][ /\ StartListening /\ Len(streams') = Len(streams) + 1 =>
           /\ streams'[Len(streams')].inputLanguage = inputLanguage
           /\ streams'[Len(streams')].outputLanguage = outputLanguage
      /\ \A s \in DOMAIN streams :
           /\ streams'[s].inputLanguage = streams[s].inputLanguage
           /\ streams'[s].outputLanguage = streams[s].outputLanguage
      /\ \A s \in DOMAIN streams : \A batch \in Batches :
           OnResult(s, batch) /\ finalTranscriptOf(batch) # <<>> =>
             LET call == recognised[batch, streams[s].inputLanguage,
                                    streams[s].outputLanguage].call
             IN  /\ call.targetLang = streams[s].outputLanguage
                 /\ call.sourceLang
                      = detectInputLanguage(streams[s].inputLanguage).v
                 /\ IF call.pc = "done"
                    THEN /\ calls' = calls
                         /\ translatedText'
                              = Append(translatedText,
                                       <<" ">> \o call.result.text)
                    ELSE /\ Len(calls') = Len(calls) + 1
                         /\ calls'[Len(calls')] = call
    ]_vars

\* English to Spanish was selected at Start, English is the output selected
\* now, and the utterance just committed is on its way to Spanish.
C31_Witness ==
  /\ lastOp = "onresult"
  /\ Len(streams) = 1
  /\ streams[1].outputLanguage = <<"e","s">>
  /\ streams[1].inputLanguage = <<"e","n","-","U","S">>
  /\ outputLanguage = <<"e","n">>
  /\ inputLanguage = <<"r","u","-","R","U">>
  /\ Len(calls) = 1
  /\ calls[1].targetLang = <<"e","s">>
  /\ calls[1].sourceLang = <<"e","n">>

----------------------------------------------------------------------------
(* The frame of Clear, over the session.                                   *)

\* C32: Clear empties transcript and translatedText and shows one
\* notification, of type info; isListening, every stream and the handle
\* held, the calls in flight, the languages and what is being spoken are
\* as they were.
C32_ClearFrame ==
  [][ ClearText =>
        /\ transcript' = <<>>
        /\ translatedText' = <<>>
        /\ Len(emitted') = 1
        /\ emitted'[1].type = "info"
        /\ UNCHANGED <<isListening, recognitionRef, streams, calls, dispatched,
                       inputLanguage, outputLanguage, utterances, mounted>>
    ]_vars

\* Clear pressed while listening, with a translation in flight: the stream
\* is running and held, the call is in flight.
C32_Witness ==
  /\ lastOp = "clearText"
  /\ transcript = <<>>
  /\ translatedText = <<>>
  /\ isListening
  /\ recognitionRef = 1
  /\ streams[1].phase = "running"
  /\ Len(calls) = 1

====
